---- MODULE Spec2Model ----
(***************************************************************************)
(* A model of the persistence layer of theta-e (thetae/db.py, with the     *)
(* domain objects and conversions of thetae/util.py and the table          *)
(* declarations of thetae/schemas/default.py).                             *)
(*                                                                         *)
(* Time is counted in whole hours since 2020-01-01 00:00 UTC.  A Python    *)
(* or SQL value is a record [k, s, n]: k is the kind of the value, s its   *)
(* text (or, for the text of a timestamp, its format) and n its number.    *)
(*                                                                         *)
(* The specifications after Spec start from other databases or take the    *)
(* steps of other programs: the bulk services (getForecasts, getVerifica-  *)
(* tion), the engine (thetae/engine.py), and two writers or two runs of    *)
(* init on one database file.  run holds the position of such a program    *)
(* and is NoRun in the specifications of single calls.                     *)
(***************************************************************************)
EXTENDS Integers, Sequences, FiniteSets, TLC

VARIABLES db, now, last, nops, heap, config, run

vars == <<db, now, last, nops, heap, config, run>>

(***************************************************************************)
(* Bounds of the model.                                                    *)
(***************************************************************************)
MaxOps == 3

\* the Forecast objects a run constructs
MaxObjects == 2

(***************************************************************************)
(* Values.                                                                 *)
(***************************************************************************)
Null == [k |-> "null", s |-> "", n |-> 0]

Text(s) == [k |-> "text", s |-> s, n |-> 0]

Real(n) == [k |-> "real", s |-> "", n |-> n]

\* a datetime.datetime object whose microsecond field is 0
DateTime(t) == [k |-> "datetime", s |-> "", n |-> t]

\* datetime.utcnow(): a datetime.datetime object with a microsecond field
utcnow(t) == [k |-> "datetime", s |-> "us", n |-> t]

\* datetime + timedelta(hours=h)
AddHours(date, h) == [date EXCEPT !.n = @ + h]

\* a str that spells the time t in the format fmt
DateStr(t, fmt) == [k |-> "datestr", s |-> fmt, n |-> t]

FmtSec == "%Y-%m-%d %H:%M:%S"

FmtMin == "%Y-%m-%d %H:%M"

FmtMicro == "%Y-%m-%d %H:%M:%S.%f"

\* n days, in hours
Days(n) == 24 * n

\* str.upper() on the strings the model uses
Upper(s) ==
  CASE s = "gfs" -> "GFS"
    [] s = "DateTime" -> "DATETIME"
    [] s = "Model" -> "MODEL"
    [] s = "high" -> "HIGH"
    [] s = "low" -> "LOW"
    [] s = "wind" -> "WIND"
    [] s = "rain" -> "RAIN"
    [] s = "temperature" -> "TEMPERATURE"
    [] s = "dewpoint" -> "DEWPOINT"
    [] s = "cloud" -> "CLOUD"
    [] s = "windSpeed" -> "WINDSPEED"
    [] s = "windDirection" -> "WINDDIRECTION"
    [] s = "rainHour" -> "RAINHOUR"
    [] s = "condition" -> "CONDITION"
    [] s = "ksea" -> "KSEA"
    [] s = "daily_forecast" -> "DAILY_FORECAST"
    [] s = "verif" -> "VERIF"
    [] s = "obs" -> "OBS"
    [] OTHER -> s

UpperValue(v) == IF v.k = "text" THEN Text(Upper(v.s)) ELSE v

date_to_datetime(date) ==
  IF date.k = "datestr" /\ date.s = FmtSec THEN DateTime(date.n) ELSE date

date_to_string(date) ==
  CASE date.k = "datetime" -> DateStr(date.n, IF date.s = "us" THEN FmtMicro ELSE FmtSec)
    [] date.k = "null" -> Text("None")
    [] OTHER -> date

\* the calendar, for the years 2020..2099 (every fourth year is a leap year)
YearStart(y) == Days(365 * (y - 2020) + ((y - 2020 + 3) \div 4))

YearOf(t) == CHOOSE y \in 2020..2060 : YearStart(y) <= t /\ t < YearStart(y + 1)

December31(y) == YearStart(y + 1) - Days(1)

\* a variant of last_leap_year that counts the year of the date itself
last_leap_yearOrThis(date) == YearOf(date) - (YearOf(date) % 4)

last_leap_year(date) == (YearOf(date) - 1) - ((YearOf(date) - 1) % 4)

\* memcmp order of two TEXT values that spell timestamps: a text without the
\* seconds field is a proper prefix of the text with it, which is a proper
\* prefix of the text with microseconds
FmtRank(fmt) == CASE fmt = FmtMin -> 1 [] fmt = FmtSec -> 2 [] OTHER -> 3

TextLE(a, b) ==
  \/ a.n < b.n
  \/ a.n = b.n /\ FmtRank(a.s) <= FmtRank(b.s)

(***************************************************************************)
(* Configuration: the stations, the data bindings and their databases.     *)
(***************************************************************************)
StationOrder == <<"KSEA", "KPDX">>

Stations == {StationOrder[i] : i \in 1..Len(StationOrder)}

BindingOrder == <<"forecast">>

DataBinding == [b \in {"forecast"} |-> [database |-> "forecast", schema |-> "default"]]

Databases == {"forecast"}

\* run when no service is in progress
NoRun == [pc |-> "none"]

\* the configuration of a default installation: DataBinding and Databases as
\* above, and an archive directory that exists or can be created
DefaultConfig ==
  [BindingOrder |-> BindingOrder, DataBinding |-> DataBinding,
   Databases |-> Databases, archive |-> TRUE, traceback |-> FALSE]

\* db.connection: Null (None) when the archive directory cannot be made or
\* the database is not declared, else a connection to the database
connection(database) ==
  IF ~config.archive THEN Null
  ELSE IF database \notin config.Databases THEN Null
  ELSE Text(database)

\* the database of the b-th data binding
BindingDatabase(b) == config.DataBinding[config.BindingOrder[b]].database

(***************************************************************************)
(* The default schema.                                                     *)
(***************************************************************************)
Col(name, type, notnull, pk) ==
  [name |-> name, type |-> type, notnull |-> notnull, pk |-> pk, keycols |-> <<>>]

CompositeKey(cols) ==
  [name |-> "PRIMARY KEY", type |-> "", notnull |-> FALSE, pk |-> FALSE, keycols |-> cols]

SchemaKeys == <<"OBS", "HOURLY_FORECAST", "VERIF", "DAILY_FORECAST", "CLIMO">>

TableTypes == {SchemaKeys[i] : i \in 1..Len(SchemaKeys)}

schema ==
  [key \in TableTypes |->
    CASE key = "OBS" ->
           << Col("DateTime", "TEXT", TRUE, TRUE), Col("temperature", "REAL", FALSE, FALSE),
              Col("dewpoint", "REAL", FALSE, FALSE), Col("cloud", "REAL", FALSE, FALSE),
              Col("windSpeed", "REAL", FALSE, FALSE), Col("windDirection", "REAL", FALSE, FALSE),
              Col("rainHour", "REAL", FALSE, FALSE), Col("condition", "TEXT", FALSE, FALSE) >>
      [] key = "HOURLY_FORECAST" ->
           << Col("DateTime", "TEXT", TRUE, FALSE), Col("Model", "TEXT", FALSE, FALSE),
              Col("temperature", "REAL", FALSE, FALSE), Col("dewpoint", "REAL", FALSE, FALSE),
              Col("cloud", "REAL", FALSE, FALSE), Col("windSpeed", "REAL", FALSE, FALSE),
              Col("windDirection", "REAL", FALSE, FALSE), Col("rain", "REAL", FALSE, FALSE),
              Col("condition", "TEXT", FALSE, FALSE), CompositeKey(<<"DateTime", "Model">>) >>
      [] key = "DAILY_FORECAST" ->
           << Col("DateTime", "TEXT", TRUE, FALSE), Col("Model", "TEXT", FALSE, FALSE),
              Col("high", "REAL", FALSE, FALSE), Col("low", "REAL", FALSE, FALSE),
              Col("wind", "REAL", FALSE, FALSE), Col("rain", "REAL", FALSE, FALSE),
              CompositeKey(<<"DateTime", "Model">>) >>
      [] OTHER ->  \* VERIF and CLIMO
           << Col("DateTime", "TEXT", TRUE, TRUE), Col("high", "REAL", FALSE, FALSE),
              Col("low", "REAL", FALSE, FALSE), Col("wind", "REAL", FALSE, FALSE),
              Col("rain", "REAL", FALSE, FALSE) >> ]

(***************************************************************************)
(* The database: per database name and table name, a table or no table.    *)
(* A table keeps its rows in rowid order.                                  *)
(***************************************************************************)
NoTable == [exists |-> FALSE, columns |-> <<>>, notnull |-> {}, key |-> <<>>, rows |-> <<>>]

\* the physical name '%s_%s' % (stid.upper(), key)
TableName(stid, key) == <<Upper(stid), key>>

TableNames == {TableName(s, k) : s \in Stations, k \in TableTypes}

IndexOf(seq, x) == CHOOSE i \in 1..Len(seq) : seq[i] = x

\* the table that "CREATE TABLE name (<column type>, ...)" makes of a schema
\* entry: the pseudo-column PRIMARY KEY is a table constraint, not a column
CreateTable(structure) ==
  LET real == SelectSeq(structure, LAMBDA c : c.name # "PRIMARY KEY")
      names == [i \in 1..Len(real) |-> real[i].name]
      pseudo == SelectSeq(structure, LAMBDA c : c.name = "PRIMARY KEY")
  IN [exists |-> TRUE,
      columns |-> names,
      notnull |-> {i \in 1..Len(real) : real[i].notnull},
      key |-> IF Len(pseudo) > 0
              THEN [j \in 1..Len(pseudo[1].keycols) |-> IndexOf(names, pseudo[1].keycols[j])]
              ELSE SelectSeq([i \in 1..Len(real) |-> i], LAMBDA i : real[i].pk),
      rows |-> <<>>]

EmptyDatabase == [t \in TableNames |-> NoTable]

(***************************************************************************)
(* What an operation did: the exception it raised ("" for a normal         *)
(* return), the value it returned, the databases it left behind and the    *)
(* number of connections it opened and closed.                             *)
(***************************************************************************)
Outcome(exc, ret, dbs, opened, closed) ==
  [exc |-> exc, ret |-> ret, dbs |-> dbs, opened |-> opened, closed |-> closed]

(***************************************************************************)
(* db.init                                                                 *)
(***************************************************************************)
RetentionDays == 30

\* SELECT name FROM sqlite_master WHERE type='table'
sql_table_names(tables) == {t \in DOMAIN tables : tables[t].exists}

\* a variant of NewestKey without the ORDER BY: the key of the first row
NewestKeyUnordered(tab) ==
  IF ~tab.exists \/ Len(tab.rows) = 0 THEN Null ELSE tab.rows[1][1]

\* SELECT key FROM table ORDER BY key DESC LIMIT 1, then fetchone()[0] under
\* the try: Null (None) stands for the TypeError of fetchone() returning None
\* and for any error of the query
NewestKey(tab) ==
  IF ~tab.exists \/ Len(tab.rows) = 0 THEN Null
  ELSE LET keys == {tab.rows[i][1] : i \in 1..Len(tab.rows)}
       IN CHOOSE m \in keys : \A o \in keys : TextLE(o, m)

\* a variant of Recent with a window of 28 days
RecentFourWeeks(stid, table, tnow) ==
  IF table # TableName(stid, "CLIMO") THEN Days(RetentionDays - 2)
  ELSE tnow - December31(last_leap_year(tnow))

\* the retention window of a table at time tnow
Recent(stid, table, tnow) ==
  IF table # TableName(stid, "CLIMO") THEN Days(RetentionDays)
  ELSE tnow - December31(last_leap_year(tnow))

\* a variant of InitTable that marks the station but creates no table
InitTableNoCreate(acc, stid, key, names, reset_old, tnow) ==
  LET table == TableName(stid, key)
  IN IF acc.exc # "" THEN acc ELSE [acc EXCEPT !.add_site = TRUE]

\* a variant of InitTable that drops a stale table whatever reset_old is
InitTableAlwaysResets(acc, stid, key, names, reset_old, tnow) ==
  LET table == TableName(stid, key)
      last_dt == date_to_datetime(NewestKey(acc.tables[table]))
  IN IF acc.exc # "" THEN acc
     ELSE IF table \notin names \/ last_dt.k = "null"
             \/ tnow - last_dt.n > Recent(stid, table, tnow)
     THEN [acc EXCEPT !.add_site = TRUE, !.tables[table] = CreateTable(schema[key])]
     ELSE acc

\* one round of the loop over the schema's tables; acc is [tables, add_site, exc]
InitTable(acc, stid, key, names, reset_old, tnow) ==
  LET table == TableName(stid, key)
      last_dt == date_to_datetime(NewestKey(acc.tables[table]))
  IN IF acc.exc # "" THEN acc
     ELSE IF table \notin names
     THEN IF acc.tables[table].exists
          THEN [acc EXCEPT !.add_site = TRUE, !.exc = "OperationalError"]
          ELSE [acc EXCEPT !.add_site = TRUE, !.tables[table] = CreateTable(schema[key])]
     ELSE IF last_dt.k \notin {"null", "datetime"}
     THEN [acc EXCEPT !.exc = "TypeError"]   \* time_now - last_dt, last_dt a str
     ELSE IF last_dt.k = "null" \/ tnow - last_dt.n > Recent(stid, table, tnow)
     THEN IF reset_old
          THEN IF acc.tables[table].exists
               THEN [acc EXCEPT !.add_site = TRUE, !.tables[table] = CreateTable(schema[key])]
               ELSE [acc EXCEPT !.add_site = TRUE, !.exc = "OperationalError"]
          ELSE [acc EXCEPT !.add_site = TRUE]
     ELSE acc

RECURSIVE InitTables(_, _, _, _, _, _)
InitTables(acc, stid, names, reset_old, tnow, t) ==
  IF t > Len(SchemaKeys) THEN acc
  ELSE InitTables(InitTable(acc, stid, SchemaKeys[t], names, reset_old, tnow),
                  stid, names, reset_old, tnow, t + 1)

\* a variant of InitStation that appends the station whether or not the list
\* has it
InitStationNoDedup(acc, stid, reset_old, tnow) ==
  LET r == InitTables([tables |-> acc.tables, add_site |-> FALSE, exc |-> ""],
                      stid, sql_table_names(acc.tables), reset_old, tnow, 1)
  IN IF acc.exc # "" THEN acc
     ELSE [tables |-> r.tables,
           add_sites |-> IF r.exc = "" /\ r.add_site
                         THEN Append(acc.add_sites, stid) ELSE acc.add_sites,
           exc |-> r.exc]

\* one round of the loop over the stations; acc is [tables, add_sites, exc]
InitStation(acc, stid, reset_old, tnow) ==
  LET r == InitTables([tables |-> acc.tables, add_site |-> FALSE, exc |-> ""],
                      stid, sql_table_names(acc.tables), reset_old, tnow, 1)
      listed == \E i \in 1..Len(acc.add_sites) : acc.add_sites[i] = stid
  IN IF acc.exc # "" THEN acc
     ELSE [tables |-> r.tables,
           add_sites |-> IF r.exc = "" /\ r.add_site /\ ~listed
                         THEN Append(acc.add_sites, stid) ELSE acc.add_sites,
           exc |-> r.exc]

RECURSIVE InitStations(_, _, _, _)
InitStations(acc, reset_old, tnow, i) ==
  IF i > Len(StationOrder) THEN acc
  ELSE InitStations(InitStation(acc, StationOrder[i], reset_old, tnow), reset_old, tnow, i + 1)

\* a variant of InitBindings that passes over a binding whose connection is
\* None and goes on with the next
RECURSIVE InitBindingsSkipNone(_, _, _, _)
InitBindingsSkipNone(acc, reset_old, tnow, b) ==
  IF b > Len(config.BindingOrder) \/ acc.exc # "" THEN acc
  ELSE LET database == config.DataBinding[config.BindingOrder[b]].database
           r == InitStations([tables |-> acc.dbs[database], add_sites |-> acc.ret, exc |-> ""],
                             reset_old, tnow, 1)
       IN IF connection(database).k = "null"
          THEN InitBindingsSkipNone(acc, reset_old, tnow, b + 1)
          ELSE InitBindingsSkipNone(Outcome(r.exc, r.add_sites,
                                            [acc.dbs EXCEPT ![database] = r.tables],
                                            acc.opened + 1,
                                            IF r.exc = "" THEN acc.closed + 1 ELSE acc.closed),
                                    reset_old, tnow, b + 1)

\* the loop over the data bindings; acc is an Outcome whose ret is add_sites
RECURSIVE InitBindings(_, _, _, _)
InitBindings(acc, reset_old, tnow, b) ==
  IF b > Len(config.BindingOrder) \/ acc.exc # "" THEN acc
  ELSE LET database == config.DataBinding[config.BindingOrder[b]].database
           r == InitStations([tables |-> acc.dbs[database], add_sites |-> acc.ret, exc |-> ""],
                             reset_old, tnow, 1)
       IN IF connection(database).k = "null" THEN [acc EXCEPT !.exc = "IOError"]
          ELSE InitBindings(Outcome(r.exc, r.add_sites,
                                    [acc.dbs EXCEPT ![database] = r.tables],
                                    acc.opened + 1,
                                    IF r.exc = "" THEN acc.closed + 1 ELSE acc.closed),
                            reset_old, tnow, b + 1)

init(dbs, reset_old, tnow) == InitBindings(Outcome("", <<>>, dbs, 0, 0), reset_old, tnow, 1)

(***************************************************************************)
(* db.remove                                                               *)
(***************************************************************************)
\* a variant of RemoveTables that leaves the CLIMO table of the station
RemoveTablesButClimo(tables, stid) ==
  [t \in DOMAIN tables |->
     IF \E key \in TableTypes \ {"CLIMO"} : t = TableName(stid, key) THEN NoTable ELSE tables[t]]

RemoveTables(tables, stid) ==
  [t \in DOMAIN tables |->
     IF \E key \in TableTypes : t = TableName(stid, key) THEN NoTable ELSE tables[t]]

RECURSIVE RemoveBindings(_, _, _)
RemoveBindings(acc, stid, b) ==
  IF b > Len(config.BindingOrder) THEN acc
  ELSE LET database == config.DataBinding[config.BindingOrder[b]].database
       IN IF connection(database).k = "null" THEN [acc EXCEPT !.exc = "IOError"]
          ELSE RemoveBindings(Outcome("", Null,
                                      [acc.dbs EXCEPT ![database] =
                                         RemoveTables(acc.dbs[database], stid)],
                                      acc.opened + 1, acc.closed + 1),
                              stid, b + 1)

remove(dbs, stid) == RemoveBindings(Outcome("", Null, dbs, 0, 0), stid, 1)

(***************************************************************************)
(* db._write                                                               *)
(***************************************************************************)
TableOf(tables, table) == IF table \in DOMAIN tables THEN tables[table] ELSE NoTable

\* the scan of the rows' lengths: the common length, or -1 for the ValueError
RECURSIVE RowLen(_, _, _)
RowLen(values, i, row_len) ==
  IF i > Len(values) THEN row_len
  ELSE IF row_len = 0 \/ row_len = Len(values[i])
       THEN RowLen(values, i + 1, Len(values[i]))
       ELSE -1

\* the rows of tab that collide with row on the table's unique key; a NULL
\* in a key column collides with nothing
Conflicts(tab, row) ==
  {i \in 1..Len(tab.rows) :
     \A j \in 1..Len(tab.key) :
        row[tab.key[j]].k # "null" /\ tab.rows[i][tab.key[j]] = row[tab.key[j]]}

\* REPLACE INTO / INSERT INTO of one row
ExecRow(tab, sql_cmd, row, row_len) ==
  IF Len(row) # row_len THEN [exc |-> "ProgrammingError", tab |-> tab]
  ELSE IF \E c \in tab.notnull : row[c].k = "null" THEN [exc |-> "IntegrityError", tab |-> tab]
  ELSE IF Conflicts(tab, row) = {} THEN [exc |-> "", tab |-> [tab EXCEPT !.rows = Append(@, row)]]
  ELSE IF sql_cmd = "INSERT" THEN [exc |-> "IntegrityError", tab |-> tab]
  ELSE LET keep == SelectSeq([i \in 1..Len(tab.rows) |-> i], LAMBDA i : i \notin Conflicts(tab, row))
       IN [exc |-> "",
           tab |-> [tab EXCEPT !.rows = Append([i \in 1..Len(keep) |-> tab.rows[keep[i]]], row)]]

\* cursor.executemany: the rows in order, stopping at the first error
RECURSIVE ExecMany(_, _, _, _, _)
ExecMany(tab, sql_cmd, values, row_len, i) ==
  IF i > Len(values) THEN [exc |-> "", tab |-> tab]
  ELSE LET r == ExecRow(tab, sql_cmd, values[i], row_len)
       IN IF r.exc # "" THEN r ELSE ExecMany(r.tab, sql_cmd, values, row_len, i + 1)

\* a variant of _write in which the rows executed before an error stay stored
WriteKeepsPrefix(dbs, values, database, table, replace) ==
  LET row_len == RowLen(values, 1, 0)
      tab == TableOf(dbs[database], table)
      sql_cmd == IF replace THEN "REPLACE" ELSE "INSERT"
      r == ExecMany(tab, sql_cmd, values, row_len, 1)
  IN IF Len(values) = 0 THEN Outcome("ValueError", Null, dbs, 0, 0)
     ELSE IF row_len = -1 THEN Outcome("ValueError", Null, dbs, 0, 0)
     ELSE IF connection(database).k = "null" THEN Outcome("AttributeError", Null, dbs, 0, 0)
     ELSE IF ~tab.exists \/ row_len = 0 \/ row_len # Len(tab.columns)
     THEN Outcome("OperationalError", Null, dbs, 1, 0)
     ELSE Outcome(r.exc, Null, [dbs EXCEPT ![database][table] = r.tab], 1, 1)

\* values is a list of tuples; the uncommitted rows of a failed executemany are
\* rolled back when the connection object is discarded
_write(dbs, values, database, table, replace) ==
  LET row_len == RowLen(values, 1, 0)
      tab == TableOf(dbs[database], table)
      sql_cmd == IF replace THEN "REPLACE" ELSE "INSERT"
      r == ExecMany(tab, sql_cmd, values, row_len, 1)
  IN IF Len(values) = 0 THEN Outcome("ValueError", Null, dbs, 0, 0)
     ELSE IF row_len = -1 THEN Outcome("ValueError", Null, dbs, 0, 0)
     ELSE IF connection(database).k = "null" THEN Outcome("AttributeError", Null, dbs, 0, 0)
     ELSE IF ~tab.exists \/ row_len = 0 \/ row_len # Len(tab.columns)
     THEN Outcome("OperationalError", Null, dbs, 1, 0)
     ELSE IF r.exc # "" THEN Outcome(r.exc, Null, dbs, 1, 0)
     ELSE Outcome("", Null, [dbs EXCEPT ![database][table] = r.tab], 1, 1)

(***************************************************************************)
(* Domain objects (thetae.util) and their writers                          *)
(***************************************************************************)
Daily(stid, date) ==
  [stid |-> stid, date |-> date, model |-> Null,
   high |-> Null, low |-> Null, wind |-> Null, rain |-> Null]

to_float(x) == IF x.k = "real" THEN x ELSE Null

setValues(daily, high, low, wind, rain) ==
  [daily EXCEPT !.high = to_float(high), !.low = to_float(low),
                !.wind = to_float(wind), !.rain = to_float(rain)]

TimeSeries(stid) == [stid |-> stid, model |-> Null, data |-> <<>>]

\* getattr(object, name, None)
GetAttr(obj, name) == IF name \in DOMAIN obj THEN obj[name] ELSE Null

RealColumns(table_type) ==
  LET cols == schema[Upper(table_type)]
      names == [i \in 1..Len(cols) |-> cols[i].name]
  IN SelectSeq(names, LAMBDA c : Upper(c) # "PRIMARY KEY")

\* a variant of daily_to_row that binds a value for the pseudo-column too
daily_to_rowEveryColumn(daily, datestr, model, table_type) ==
  LET cols == schema[Upper(table_type)]
  IN [i \in 1..Len(cols) |->
        CASE Upper(cols[i].name) = "DATETIME" -> datestr
          [] Upper(cols[i].name) = "MODEL" -> model
          [] OTHER -> GetAttr(daily, cols[i].name)]

daily_to_row(daily, datestr, model, table_type) ==
  LET cols == RealColumns(table_type)
  IN [i \in 1..Len(cols) |->
        CASE Upper(cols[i]) = "DATETIME" -> datestr
          [] Upper(cols[i]) = "MODEL" -> model
          [] OTHER -> GetAttr(daily, cols[i])]

\* a variant of writeDaily without the check of the station ids
writeDailyAnyStation(dbs, daily, data_binding, table_type) ==
  LET database == config.DataBinding[data_binding].database
      items == daily.items
      stid == items[1].stid
      daily_sql == [i \in 1..Len(items) |->
                      daily_to_row(items[i], date_to_string(items[i].date),
                                   items[i].model, table_type)]
  IN IF daily.is_list /\ Len(items) = 0 THEN Outcome("IndexError", Null, dbs, 0, 0)
     ELSE _write(dbs, daily_sql, database, TableName(stid, Upper(table_type)), TRUE)

\* daily is [is_list, items]: a list of Daily objects, or one Daily (items[1])
writeDaily(dbs, daily, data_binding, table_type) ==
  LET database == config.DataBinding[data_binding].database
      items == daily.items
      stid == items[1].stid
      daily_sql == [i \in 1..Len(items) |->
                      daily_to_row(items[i], date_to_string(items[i].date),
                                   items[i].model, table_type)]
  IN IF daily.is_list /\ Len(items) = 0 THEN Outcome("IndexError", Null, dbs, 0, 0)
     ELSE IF daily.is_list /\ \E i \in 1..Len(items) : items[i].stid # stid
     THEN Outcome("ValueError", Null, dbs, 0, 0)
     ELSE _write(dbs, daily_sql, database, TableName(stid, Upper(table_type)), TRUE)

\* hourly.columns = [c.upper() for c in hourly.columns]
UpperFields(rec) ==
  [f \in {Upper(x) : x \in DOMAIN rec} |-> rec[CHOOSE x \in DOMAIN rec : Upper(x) = f]]

\* the rows of one TimeSeries' data frame (a sequence of records, one field
\* per frame column)
hourly_to_row(hourly, model, table_type) ==
  LET cols == RealColumns(table_type)
  IN [r \in 1..Len(hourly) |->
        LET pd_row == UpperFields(hourly[r])
        IN [i \in 1..Len(cols) |->
              CASE Upper(cols[i]) = "DATETIME" -> date_to_string(pd_row["DATETIME"])
                [] Upper(cols[i]) = "MODEL" -> model
                [] OTHER -> GetAttr(pd_row, Upper(cols[i]))]]

RECURSIVE Concat(_)
Concat(seqs) == IF Len(seqs) = 0 THEN <<>> ELSE Head(seqs) \o Concat(Tail(seqs))

\* timeseries is [is_list, items]
writeTimeSeries(dbs, timeseries, data_binding, table_type) ==
  LET database == config.DataBinding[data_binding].database
      items == timeseries.items
      stid == items[1].stid
      hourly_sql == Concat([i \in 1..Len(items) |->
                              hourly_to_row(items[i].data, items[i].model, table_type)])
  IN IF timeseries.is_list /\ Len(items) = 0 THEN Outcome("IndexError", Null, dbs, 0, 0)
     ELSE IF timeseries.is_list /\ \E i \in 1..Len(items) : items[i].stid # stid
     THEN Outcome("ValueError", Null, dbs, 0, 0)
     ELSE _write(dbs, hourly_sql, database, TableName(stid, Upper(table_type)), TRUE)

Forecast(stid, model, date) ==
  [stid |-> stid, model |-> model, date |-> date,
   timeseries |-> [TimeSeries(stid) EXCEPT !.model = model],
   daily |-> [Daily(stid, date) EXCEPT !.model = model]]

\* a variant of setModel that leaves the embedded TimeSeries and Daily alone
setModelForecastOnly(forecast, model) == [forecast EXCEPT !.model = model]

setModel(forecast, model) ==
  [forecast EXCEPT !.model = model, !.timeseries.model = model, !.daily.model = model]

\* a variant of writeForecast that lets the ValueError of the hourly half out
writeForecastRaises(dbs, forecast) ==
  LET daily == [is_list |-> forecast.is_list,
                items |-> [i \in 1..Len(forecast.items) |-> forecast.items[i].daily]]
      timeseries == [is_list |-> forecast.is_list,
                     items |-> [i \in 1..Len(forecast.items) |-> forecast.items[i].timeseries]]
      d == writeDaily(dbs, daily, "forecast", "DAILY_FORECAST")
      h == writeTimeSeries(d.dbs, timeseries, "forecast", "HOURLY_FORECAST")
  IN IF d.exc # "" THEN d
     ELSE Outcome(h.exc, Null, h.dbs, d.opened + h.opened, d.closed + h.closed)

\* forecast is [is_list, items]
writeForecast(dbs, forecast) ==
  LET daily == [is_list |-> forecast.is_list,
                items |-> [i \in 1..Len(forecast.items) |-> forecast.items[i].daily]]
      timeseries == [is_list |-> forecast.is_list,
                     items |-> [i \in 1..Len(forecast.items) |-> forecast.items[i].timeseries]]
      d == writeDaily(dbs, daily, "forecast", "DAILY_FORECAST")
      h == writeTimeSeries(d.dbs, timeseries, "forecast", "HOURLY_FORECAST")
  IN IF d.exc # "" THEN d
     ELSE Outcome(IF h.exc = "ValueError" THEN "" ELSE h.exc, Null, h.dbs,
                  d.opened + h.opened, d.closed + h.closed)

(***************************************************************************)
(* db._read and the readers                                                *)
(***************************************************************************)
\* ORDER BY DATETIME ASC: insertion of each row after the rows that are not
\* later than it (rows of equal DATETIME stay in rowid order)
RECURSIVE OrderByDateTime(_)
OrderByDateTime(rows) ==
  IF Len(rows) = 0 THEN <<>>
  ELSE LET sorted == OrderByDateTime(SubSeq(rows, 1, Len(rows) - 1))
           x == rows[Len(rows)]
           before == SelectSeq(sorted, LAMBDA r : TextLE(r[1], x[1]))
           after == SelectSeq(sorted, LAMBDA r : ~TextLE(r[1], x[1]))
       IN before \o <<x>> \o after

HasColumn(tab, NAME) == \E i \in 1..Len(tab.columns) : Upper(tab.columns[i]) = NAME

ColumnIndex(columns, NAME) == CHOOSE i \in 1..Len(columns) : Upper(columns[i]) = NAME

DropColumn(seq, c) == [i \in 1..(Len(seq) - 1) |-> IF i < c THEN seq[i] ELSE seq[i + 1]]

\* a variant of Window that derives a missing end from the start by 12 hours
WindowHalfDay(start_date, end_date, tnow) ==
  LET sd == date_to_datetime(start_date)
      ed == date_to_datetime(end_date)
  IN IF sd.k = "datetime" /\ ed.k = "null"
     THEN [exc |-> "", start |-> date_to_string(sd), end |-> date_to_string(AddHours(sd, 12))]
     ELSE IF sd.k = "null" /\ ed.k = "datetime"
     THEN [exc |-> "", start |-> date_to_string(AddHours(ed, -24)), end |-> date_to_string(ed)]
     ELSE IF sd.k = "null" /\ ed.k = "null"
     THEN [exc |-> "", start |-> date_to_string(utcnow(tnow)),
           end |-> date_to_string(AddHours(utcnow(tnow), 24))]
     ELSE [exc |-> "", start |-> date_to_string(sd), end |-> date_to_string(ed)]

\* the window of a read: [exc, start, end], start and end as the texts bound
\* to the query
Window(start_date, end_date, tnow) ==
  LET sd == date_to_datetime(start_date)
      ed == date_to_datetime(end_date)
  IN IF sd.k = "null" /\ ed.k # "null"
     THEN IF ed.k # "datetime" THEN [exc |-> "TypeError", start |-> Null, end |-> Null]
          ELSE [exc |-> "", start |-> date_to_string(AddHours(ed, -24)), end |-> date_to_string(ed)]
     ELSE IF sd.k # "null" /\ ed.k = "null"
     THEN IF sd.k # "datetime" THEN [exc |-> "TypeError", start |-> Null, end |-> Null]
          ELSE [exc |-> "", start |-> date_to_string(sd), end |-> date_to_string(AddHours(sd, 24))]
     ELSE IF sd.k = "null" /\ ed.k = "null"
     THEN [exc |-> "", start |-> date_to_string(utcnow(tnow)),
           end |-> date_to_string(AddHours(utcnow(tnow), 24))]
     ELSE [exc |-> "", start |-> date_to_string(sd), end |-> date_to_string(ed)]

\* a variant of Select without the ORDER BY clause: the rows in rowid order
SelectRowidOrder(tab, model, start, end) ==
  LET dt == ColumnIndex(tab.columns, "DATETIME")
      hit(r) == /\ TextLE(start, r[dt]) /\ TextLE(r[dt], end)
                /\ model.k # "null" =>
                     r[ColumnIndex(tab.columns, "MODEL")] = UpperValue(model)
  IN SelectSeq(tab.rows, hit)

\* SELECT * FROM table WHERE DATETIME>=? AND DATETIME<=? [AND MODEL=?]
\* ORDER BY DATETIME ASC
Select(tab, model, start, end) ==
  LET dt == ColumnIndex(tab.columns, "DATETIME")
      hit(r) == /\ TextLE(start, r[dt]) /\ TextLE(r[dt], end)
                /\ model.k # "null" =>
                     r[ColumnIndex(tab.columns, "MODEL")] = UpperValue(model)
  IN OrderByDateTime(SelectSeq(tab.rows, hit))

\* a variant of _read that returns a frame without rows when no row is found
ReadEmptyFrame(dbs, database, table, model, start_date, end_date, tnow) ==
  LET w == Window(start_date, end_date, tnow)
      tab == TableOf(dbs[database], table)
      values == Select(tab, model, w.start, w.end)
      columns == [i \in 1..Len(tab.columns) |-> Upper(tab.columns[i])]
  IN IF w.exc # "" THEN Outcome(w.exc, Null, dbs, 0, 0)
     ELSE IF connection(database).k = "null" THEN Outcome("AttributeError", Null, dbs, 0, 0)
     ELSE IF ~tab.exists \/ ~HasColumn(tab, "DATETIME")
             \/ (model.k # "null" /\ ~HasColumn(tab, "MODEL"))
     THEN Outcome("OperationalError", Null, dbs, 1, 0)
     ELSE Outcome("", [k |-> "frame", columns |-> columns, rows |-> values], dbs, 1, 1)

\* returns Null (None) or a frame [k, columns, rows]
_read(dbs, database, table, model, start_date, end_date, tnow) ==
  LET w == Window(start_date, end_date, tnow)
      tab == TableOf(dbs[database], table)
      values == Select(tab, model, w.start, w.end)
      columns == [i \in 1..Len(tab.columns) |-> Upper(tab.columns[i])]
      m == ColumnIndex(columns, "MODEL")
  IN IF w.exc # "" THEN Outcome(w.exc, Null, dbs, 0, 0)
     ELSE IF connection(database).k = "null" THEN Outcome("AttributeError", Null, dbs, 0, 0)
     ELSE IF ~tab.exists \/ ~HasColumn(tab, "DATETIME")
             \/ (model.k # "null" /\ ~HasColumn(tab, "MODEL"))
     THEN Outcome("OperationalError", Null, dbs, 1, 0)
     ELSE IF Len(values) = 0 THEN Outcome("", Null, dbs, 1, 0)
     ELSE IF model.k # "null"
     THEN Outcome("", [k |-> "frame", columns |-> DropColumn(columns, m),
                       rows |-> [i \in 1..Len(values) |-> DropColumn(values[i], m)]],
                  dbs, 1, 1)
     ELSE Outcome("", [k |-> "frame", columns |-> columns, rows |-> values], dbs, 1, 1)

\* the methods class Daily defines
DailyMethods == {"__init__", "setValues", "getValues"}

\* row[NAME] of a frame row
Cell(data, row, NAME) == row[ColumnIndex(data.columns, NAME)]

\* returns [k |-> "daily", v |-> a Daily] or [k |-> "list", v |-> Dailys]
readDaily(dbs, stid, data_binding, table_type, model, start_date, end_date, force_list, tnow) ==
  LET database == config.DataBinding[data_binding].database
      r == _read(dbs, database, TableName(stid, Upper(table_type)), model,
                 start_date, end_date, tnow)
      data == r.ret
      daily_list ==
        [i \in 1..Len(data.rows) |->
           [setValues(Daily(stid, date_to_datetime(Cell(data, data.rows[i], "DATETIME"))),
                      Cell(data, data.rows[i], "HIGH"), Cell(data, data.rows[i], "LOW"),
                      Cell(data, data.rows[i], "WIND"), Cell(data, data.rows[i], "RAIN"))
            EXCEPT !.model = model]]
  IN IF r.exc # "" THEN r
     ELSE IF data.k = "null" THEN [r EXCEPT !.exc = "ValueError"]
     ELSE IF \E c \in {"HIGH", "LOW", "WIND", "RAIN"} :
                ~\E i \in 1..Len(data.columns) : data.columns[i] = c
     THEN [r EXCEPT !.exc = "KeyError", !.ret = Null]
     ELSE IF "set_values" \notin DailyMethods
     THEN [r EXCEPT !.exc = "AttributeError", !.ret = Null]
     ELSE IF Len(data.rows) > 1 \/ force_list
     THEN [r EXCEPT !.ret = [k |-> "list", v |-> daily_list]]
     ELSE [r EXCEPT !.ret = [k |-> "daily", v |-> daily_list[1]]]

\* returns [k |-> "timeseries", v |-> a TimeSeries whose data is the frame]
readTimeSeries(dbs, stid, data_binding, table_type, model, start_date, end_date, tnow) ==
  LET database == config.DataBinding[data_binding].database
      r == _read(dbs, database, TableName(stid, Upper(table_type)), model,
                 start_date, end_date, tnow)
      timeseries == [TimeSeries(stid) EXCEPT !.data = r.ret]
  IN IF r.exc # "" THEN r
     ELSE IF r.ret.k = "null" THEN [r EXCEPT !.exc = "ValueError"]
     ELSE [r EXCEPT !.ret = [k |-> "timeseries",
                             v |-> IF model.k # "null"
                                   THEN [timeseries EXCEPT !.model = model]
                                   ELSE timeseries]]

\* the Forecast assembled from the outcome d of readDaily and the outcome h
\* of readTimeSeries: a ValueError of the hourly half is caught when
\* no_hourly_ok is set, no other error is
ForecastOutcome(dbs, stid, model, date, no_hourly_ok, d, h) ==
  LET forecast == Forecast(stid, model, date)
      opened == d.opened + h.opened
      closed == d.closed + h.closed
  IN IF h.exc = "ValueError" /\ no_hourly_ok
     THEN Outcome("", [k |-> "forecast",
                       v |-> [forecast EXCEPT !.timeseries = TimeSeries(stid),
                                              !.daily = d.ret.v]],
                  dbs, opened, closed)
     ELSE IF h.exc # "" THEN Outcome(h.exc, Null, dbs, opened, closed)
     ELSE Outcome("", [k |-> "forecast",
                       v |-> [forecast EXCEPT !.timeseries = h.ret.v, !.daily = d.ret.v]],
                  dbs, opened, closed)

\* the hourly half of readForecast, after the daily half gave d and the date
\* converted to dt
ReadHourly(dbs, stid, model, date, hour_start, hour_padding, no_hourly_ok, tnow, d, dt) ==
  IF d.exc # "" THEN d
  ELSE IF dt.k # "datetime" THEN [d EXCEPT !.exc = "TypeError", !.ret = Null]
  ELSE ForecastOutcome(dbs, stid, model, date, no_hourly_ok, d,
                       readTimeSeries(dbs, stid, "forecast", "HOURLY_FORECAST", model,
                                      AddHours(dt, hour_start - hour_padding),
                                      AddHours(dt, hour_start + 24 + hour_padding), tnow))

\* returns [k |-> "forecast", v |-> a Forecast]
readForecast(dbs, stid, model, date, hour_start, hour_padding, no_hourly_ok, tnow) ==
  IF hour_start < 0 \/ hour_start > 23 THEN Outcome("ValueError", Null, dbs, 0, 0)
  ELSE IF hour_padding < 0 \/ hour_padding > 24 THEN Outcome("ValueError", Null, dbs, 0, 0)
  ELSE ReadHourly(dbs, stid, model, date, hour_start, hour_padding, no_hourly_ok, tnow,
                  readDaily(dbs, stid, "forecast", "DAILY_FORECAST", model,
                            date, date, FALSE, tnow),
                  date_to_datetime(date))

(***************************************************************************)
(* Inputs of the operations.                                               *)
(***************************************************************************)
\* the time of the first state: 2026-11-02 00:00 UTC
Now0 == Days(2497)

\* midnights 31, 30 and 29 days before tnow
Dates(tnow) == {tnow - Days(31), tnow - Days(30), tnow - Days(29)}

Models == {Text("GFS"), Text("gfs"), Null}

\* high, low, wind, rain
Measurements == { <<52, 41, 17, 0>>, <<60, 45, 9, 4>> }

MakeDaily(stid, t, model, m) ==
  [setValues(Daily(stid, DateTime(t)), Real(m[1]), Real(m[2]), Real(m[3]), Real(m[4]))
   EXCEPT !.model = model]

One(x) == [is_list |-> FALSE, items |-> <<x>>]

List(xs) == [is_list |-> TRUE, items |-> xs]

DailyInputs(tnow) ==
  {One(MakeDaily(s, t, model, m)) :
     s \in Stations, t \in Dates(tnow), model \in Models, m \in Measurements}
  \cup {List(<<MakeDaily("KSEA", tnow - Days(31), Text("GFS"), <<52, 41, 17, 0>>),
               MakeDaily(s, t, Text("GFS"), <<60, 45, 9, 4>>)>>) :
          s \in Stations, t \in {tnow - Days(31), tnow - Days(30)}}
  \cup {List(<<MakeDaily("KSEA", tnow - Days(30), Text("GFS"), <<60, 45, 9, 4>>),
               MakeDaily("KSEA", tnow - Days(31), Text("GFS"), <<52, 41, 17, 0>>)>>)}
  \cup {List(<<>>)}

\* a frame of hourly rows at the times ts, each with a temperature
Frame(ts) == [i \in 1..Len(ts) |-> [DateTime |-> DateTime(ts[i]), temperature |-> Real(50 + i)]]

MakeTimeSeries(stid, model, ts) == [TimeSeries(stid) EXCEPT !.model = model, !.data = Frame(ts)]

HourlyTimes(tnow) == { <<>>, <<tnow - Days(31)>>, <<tnow - Days(30) + 6, tnow - Days(31) + 6>> }

TimeSeriesInputs(tnow) ==
  {One(MakeTimeSeries(s, model, ts)) :
     s \in Stations, model \in {Text("GFS"), Null}, ts \in HourlyTimes(tnow)}
  \cup {List(<<MakeTimeSeries("KSEA", Text("GFS"), <<tnow - Days(31)>>),
               MakeTimeSeries(s, Text("GFS"), <<tnow - Days(30)>>)>>) : s \in Stations}

MakeForecast(stid, model, t, m, ts) ==
  LET f == Forecast(stid, model, DateTime(t))
  IN [f EXCEPT !.daily = setValues(@, Real(m[1]), Real(m[2]), Real(m[3]), Real(m[4])),
               !.timeseries.data = Frame(ts)]

\* the forecast of the next day, as getForecasts.main asks for it, and the
\* forecasts of two past days in a list, as getForecasts.historical does
ForecastInputs(tnow) ==
  {One(MakeForecast(s, Text("GFS"), tnow + Days(1), <<52, 41, 17, 0>>, ts)) :
     s \in Stations, ts \in {<<>>, <<tnow + Days(1) + 6>>}}
  \cup {List(<<MakeForecast("KSEA", Text("GFS"), tnow - Days(30), <<52, 41, 17, 0>>, <<>>),
               MakeForecast(s, Text("GFS"), tnow - Days(29), <<60, 45, 9, 4>>, <<>>)>>) :
          s \in Stations}

\* rows for direct calls of _write on a VERIF table (five columns) and on a
\* DAILY_FORECAST table (six columns)
VerifRow(t, high) == <<DateStr(t, FmtSec), Real(high), Real(41), Real(17), Real(0)>>

ForecastRow(t, model, high) ==
  <<DateStr(t, FmtSec), model, Real(high), Real(41), Real(17), Real(0)>>

RawBatches(tnow) ==
  LET r1 == VerifRow(tnow - Days(29), 52)
      r1b == VerifRow(tnow - Days(29), 60)
      r2 == VerifRow(tnow - Days(30), 52)
  IN [t \in {"VERIF"} |->
        { <<>>, <<r1>>, <<r1b>>, <<r2, r1>>, <<r2, r1b>>,
          <<r1, <<>>>>, << <<>>, r1>>, << <<>>, <<>> >>, <<r1, SubSeq(r1, 1, 4)>> }]
     @@ [t \in {"DAILY_FORECAST"} |->
        { <<ForecastRow(tnow - Days(29), model, high)>> :
            model \in {Text("GFS"), Null}, high \in {52, 60} }]

\* the start and end dates of a read
WindowInputs(tnow) ==
  LET T == tnow - Days(31)
  IN { <<Null, Null>> }
     \cup { <<a, Null>> : a \in {DateTime(T), DateStr(T, FmtSec)} }
     \cup { <<Null, b>> : b \in {DateTime(T + 24), DateStr(T + 24, FmtSec)} }
     \cup { <<a, b>> : a \in {DateTime(T), DateStr(T, FmtSec)},
                       b \in {DateTime(T + 24), DateStr(T + 24, FmtSec)} }

(***************************************************************************)
(* The state machine: one action per operation of the persistence layer.   *)
(* last records the latest call: its name and arguments, the databases     *)
(* before it (pre) and what it did.                                        *)
(***************************************************************************)
NoCall ==
  [op |-> "", args |-> <<>>, exc |-> "", ret |-> Null, opened |-> 0, closed |-> 0,
   pre |-> [d \in Databases |-> EmptyDatabase]]

Init ==
  /\ db = [d \in Databases |-> EmptyDatabase]
  /\ now = Now0
  /\ last = NoCall
  /\ nops = 0
  /\ heap = <<>>
  /\ run = NoRun
  /\ config = DefaultConfig

\* the call op(args) runs to its end, with the outcome out
Call(op, args, out) ==
  /\ nops' = nops + 1
  /\ db' = out.dbs
  /\ last' = [op |-> op, args |-> args, exc |-> out.exc, ret |-> out.ret,
              opened |-> out.opened, closed |-> out.closed, pre |-> db]
  /\ now' = now
  /\ UNCHANGED <<heap, config, run>>

DoInit ==
  /\ nops < MaxOps
  /\ \E reset_old \in BOOLEAN :
     Call("init", [reset_old |-> reset_old], init(db, reset_old, now))

DoRemove ==
  /\ nops < MaxOps
  /\ \E stid \in Stations : Call("remove", [stid |-> stid], remove(db, stid))

DoWrite ==
  /\ nops < MaxOps
  /\ \E table_type \in {"VERIF", "DAILY_FORECAST"}, replace \in BOOLEAN :
     \E values \in RawBatches(now)[table_type] :
        Call("_write",
             [values |-> values, table |-> TableName("KSEA", table_type), replace |-> replace],
             _write(db, values, "forecast", TableName("KSEA", table_type), replace))

DoWriteDaily ==
  /\ nops < MaxOps
  /\ \E daily \in DailyInputs(now),
        table_type \in {"daily_forecast", "verif", "CLIMO", "obs"} :
     /\ table_type # "daily_forecast" =>
          \A i \in 1..Len(daily.items) :
             daily.items[i].model = Null /\ daily.items[i].high = Real(52)
     /\ table_type = "obs" => ~daily.is_list
     /\ Call("writeDaily", [daily |-> daily, table_type |-> table_type],
             writeDaily(db, daily, "forecast", table_type))

DoWriteTimeSeries ==
  /\ nops < MaxOps
  /\ \E timeseries \in TimeSeriesInputs(now), table_type \in {"HOURLY_FORECAST", "OBS"} :
     /\ table_type = "OBS" =>
          \A i \in 1..Len(timeseries.items) : timeseries.items[i].model = Null
     /\ Call("writeTimeSeries", [timeseries |-> timeseries, table_type |-> table_type],
             writeTimeSeries(db, timeseries, "forecast", table_type))

DoWriteForecast ==
  /\ nops < MaxOps
  /\ \E forecast \in ForecastInputs(now) :
     Call("writeForecast", [forecast |-> forecast], writeForecast(db, forecast))

DoRead ==
  /\ nops < MaxOps
  /\ \E table_type \in {"DAILY_FORECAST", "VERIF"}, model \in {Null, Text("gfs")},
     w \in WindowInputs(now) :
     Call("_read",
          [table |-> TableName("KSEA", table_type), model |-> model,
           start_date |-> w[1], end_date |-> w[2]],
          _read(db, "forecast", TableName("KSEA", table_type), model, w[1], w[2], now))

DoReadDaily ==
  /\ nops < MaxOps
  /\ \E stid \in Stations, model \in Models, t \in Dates(now), force_list \in BOOLEAN :
     Call("readDaily",
          [stid |-> stid, table_type |-> "daily_forecast", model |-> model,
           start_date |-> DateTime(t), end_date |-> DateTime(t), force_list |-> force_list],
          readDaily(db, stid, "forecast", "daily_forecast", model,
                    DateTime(t), DateTime(t), force_list, now))

DoReadTimeSeries ==
  /\ nops < MaxOps
  /\ \E stid \in Stations, table_type \in {"HOURLY_FORECAST", "OBS"},
        model \in {Null, Text("GFS")}, w \in WindowInputs(now) :
     /\ table_type = "OBS" => model = Null
     /\ Call("readTimeSeries",
             [stid |-> stid, table_type |-> table_type, model |-> model,
              start_date |-> w[1], end_date |-> w[2]],
             readTimeSeries(db, stid, "forecast", table_type, model, w[1], w[2], now))

\* the forecast of the next day or of a past day, with the default hours or
\* with an hour_start out of range
DoReadForecast ==
  /\ nops < MaxOps
  /\ \E stid \in Stations, t \in {now + Days(1), now - Days(30)},
        hour_start \in {6, 24}, no_hourly_ok \in BOOLEAN :
     Call("readForecast",
          [stid |-> stid, model |-> Text("GFS"), date |-> DateTime(t),
           hour_start |-> hour_start, hour_padding |-> 6, no_hourly_ok |-> no_hourly_ok],
          readForecast(db, stid, Text("GFS"), DateTime(t), hour_start, 6, no_hourly_ok, now))

\* a day passes
Tick ==
  /\ nops < MaxOps
  /\ nops' = nops + 1
  /\ now' = now + Days(1)
  /\ last' = [NoCall EXCEPT !.op = "tick", !.pre = db]
  /\ db' = db
  /\ UNCHANGED <<heap, config, run>>

Next ==
  \/ DoInit
  \/ DoRemove
  \/ DoWrite
  \/ DoWriteDaily
  \/ DoWriteTimeSeries
  \/ DoWriteForecast
  \/ DoRead
  \/ DoReadDaily
  \/ DoReadTimeSeries
  \/ DoReadForecast
  \/ Tick

Spec == Init /\ [][Next]_vars

(***************************************************************************)
(* A second specification, for the table lifecycle: it starts from a       *)
(* database that init and the backfill have filled (every table of every   *)
(* station holds one row), in which all rows are fresh but possibly the    *)
(* row of one table, which is 0, 1 or 2 days older.                        *)
(***************************************************************************)
\* the timestamp of a fresh row: 29 days before tnow or, for CLIMO, the last
\* day of the last complete leap year
FreshTime(key, tnow) ==
  IF key = "CLIMO" THEN December31(last_leap_year(tnow)) ELSE tnow - Days(29)

\* the row the writers store in a table of type key for the time t
AgedRow(stid, key, t) ==
  IF key \in {"OBS", "HOURLY_FORECAST"}
  THEN hourly_to_row(Frame(<<t>>), Text("GFS"), key)[1]
  ELSE daily_to_row(MakeDaily(stid, t, Text("GFS"), <<52, 41, 17, 0>>),
                    date_to_string(DateTime(t)), Text("GFS"), key)

AgedDatabase(probe, older, tnow) ==
  [t \in TableNames |->
     LET key == t[2]
         time == FreshTime(key, tnow) - (IF t = probe THEN Days(older) ELSE 0)
     IN [CreateTable(schema[key]) EXCEPT !.rows = <<AgedRow(t[1], key, time)>>]]

InitAged ==
  /\ \E probe \in TableNames, older \in 0..2 :
        db = [d \in Databases |-> AgedDatabase(probe, older, Now0)]
  /\ now = Now0
  /\ last = [NoCall EXCEPT !.pre = db]
  /\ nops = 0
  /\ heap = <<>>
  /\ run = NoRun
  /\ config = DefaultConfig

NextAged ==
  \/ DoInit
  \/ DoRemove
  \/ Tick

SpecAged == InitAged /\ [][NextAged]_vars

(***************************************************************************)
(* The same populated database in which the row of one table carries a     *)
(* timestamp that strptime('%Y-%m-%d %H:%M:%S') rejects: a text without    *)
(* the seconds field, or the text of a datetime with microseconds.         *)
(***************************************************************************)
UnparsedDatabase(probe, fmt, tnow) ==
  [t \in TableNames |->
     LET tab == AgedDatabase(probe, 0, tnow)[t]
     IN IF t = probe
        THEN [tab EXCEPT !.rows = <<[tab.rows[1] EXCEPT ![1] = DateStr(@.n, fmt)]>>]
        ELSE tab]

InitUnparsed ==
  /\ \E probe \in TableNames, fmt \in {FmtMin, FmtMicro} :
        db = [d \in Databases |-> UnparsedDatabase(probe, fmt, Now0)]
  /\ now = Now0
  /\ last = [NoCall EXCEPT !.pre = db]
  /\ nops = 0
  /\ heap = <<>>
  /\ run = NoRun
  /\ config = DefaultConfig

SpecUnparsed == InitUnparsed /\ [][NextAged]_vars

(***************************************************************************)
(* Installations whose configuration is at fault: a data binding names a   *)
(* database that is not declared under Databases, before or after a        *)
(* binding that is in order, or the only binding does, or the archive      *)
(* directory cannot be created.  No database has a table at the start.     *)
(***************************************************************************)
TwoBindings == [b \in {"forecast", "climate"} |-> [database |-> b, schema |-> "default"]]

FaultyConfigs ==
  { [DefaultConfig EXCEPT !.BindingOrder = <<"forecast", "climate">>, !.DataBinding = TwoBindings],
    [DefaultConfig EXCEPT !.BindingOrder = <<"climate", "forecast">>, !.DataBinding = TwoBindings],
    [DefaultConfig EXCEPT !.Databases = {}],
    [DefaultConfig EXCEPT !.archive = FALSE] }

InitFaulty ==
  /\ config \in FaultyConfigs
  /\ db = [d \in config.Databases |-> EmptyDatabase]
  /\ now = Now0
  /\ last = [NoCall EXCEPT !.pre = db]
  /\ nops = 0
  /\ heap = <<>>
  /\ run = NoRun

NextFaulty ==
  \/ DoInit
  \/ DoRemove
  \/ DoWrite
  \/ DoRead
  \/ Tick

SpecFaulty == InitFaulty /\ [][NextFaulty]_vars

(***************************************************************************)
(* An installation with two data bindings, each with its own declared      *)
(* database.  Both databases are populated with fresh rows, but for one    *)
(* table of one of them, whose row is 0, 1 or 2 days older or which is     *)
(* missing.                                                                *)
(***************************************************************************)
TwoDatabasesConfig ==
  [DefaultConfig EXCEPT !.BindingOrder = <<"forecast", "climate">>,
                        !.DataBinding = TwoBindings,
                        !.Databases = {"forecast", "climate"}]

InitTwoDatabases ==
  /\ config = TwoDatabasesConfig
  /\ \E pd \in config.Databases, probe \in TableNames, older \in 0..3 :
        db = [d \in config.Databases |->
                IF d # pd THEN AgedDatabase(probe, 0, Now0)
                ELSE IF older = 3 THEN [AgedDatabase(probe, 0, Now0) EXCEPT ![probe] = NoTable]
                ELSE AgedDatabase(probe, older, Now0)]
  /\ now = Now0
  /\ last = [NoCall EXCEPT !.pre = db]
  /\ nops = 0
  /\ heap = <<>>
  /\ run = NoRun

SpecTwoDatabases == InitTwoDatabases /\ [][NextAged]_vars

(***************************************************************************)
(* A third specification, for the Forecast objects of a driver: heap holds  *)
(* the objects constructed so far, and a reference to an object is its      *)
(* position in heap.                                                        *)
(***************************************************************************)
Ref(id) == [k |-> "ref", s |-> "", n |-> id]

\* the step of an object operation: it touches no database
ObjectCall(op, args, ret) ==
  /\ nops' = nops + 1
  /\ last' = [NoCall EXCEPT !.op = op, !.args = args, !.ret = ret, !.pre = db]
  /\ UNCHANGED <<db, now, config, run>>

\* forecast = Forecast(stid, model, date)
DoNewForecast ==
  /\ nops < MaxOps
  /\ Len(heap) < MaxObjects
  /\ \E stid \in Stations, model \in Models :
        /\ heap' = Append(heap, Forecast(stid, model, DateTime(now + Days(1))))
        /\ ObjectCall("Forecast", [stid |-> stid, model |-> model], Ref(Len(heap) + 1))

\* forecast.setModel(model), which returns self
DoSetModel ==
  /\ nops < MaxOps
  /\ \E id \in DOMAIN heap, model \in Models :
        /\ heap' = [heap EXCEPT ![id] = setModel(@, model)]
        /\ ObjectCall("setModel", [self |-> id, model |-> model], Ref(id))

NextObjects ==
  \/ DoNewForecast
  \/ DoSetModel

SpecObjects == Init /\ [][NextObjects]_vars

(***************************************************************************)
(* The bulk retrieval services getForecasts.main and getVerification.main: *)
(* a loop over (source, station) pairs, each a call of the source's driver *)
(* and, when the driver returned, a write.  run holds the position of the  *)
(* service: the pair it is at, whether the driver or the write comes next, *)
(* the object the driver returned, and the pairs invoked, written and      *)
(* failed so far.  A driver is outside the program: it returns an object   *)
(* or raises.                                                              *)
(***************************************************************************)
\* config['Models'].keys()
ModelOrder == <<"GFS", "NAM">>

\* the halves of getVerification.main
VerifyOrder == <<"Verification", "Obs">>

Pairs(sources) ==
  [i \in 1..(Len(sources) * Len(StationOrder)) |->
     << sources[((i - 1) \div Len(StationOrder)) + 1],
        StationOrder[((i - 1) % Len(StationOrder)) + 1] >>]

\* the (source, station) pairs of a service, in the order of its loops
Jobs(service) == IF service = "getForecasts" THEN Pairs(ModelOrder) ELSE Pairs(VerifyOrder)

\* datetime(time_now.year, time_now.month, time_now.day)
Midnight(t) == t - (t % 24)

\* what a driver can do for a pair: raise, or return an object of the station
\* (a Forecast of the next day, the Daily of today, a TimeSeries of the last
\* hour or one without rows)
DriverResults(service, job, tnow) ==
  { [exc |-> "Exception", ret |-> Null] }
  \cup IF service = "getForecasts"
       THEN { [exc |-> "", ret |-> MakeForecast(job[2], Null, Midnight(tnow) + Days(1),
                                                <<52, 41, 17, 0>>,
                                                <<Midnight(tnow) + Days(1) + 6>>)] }
       ELSE IF job[1] = "Verification"
       THEN { [exc |-> "", ret |-> MakeDaily(job[2], Midnight(tnow), Null, <<52, 41, 17, 0>>)] }
       ELSE { [exc |-> "", ret |-> MakeTimeSeries(job[2], Null, ts)] : ts \in {<<>>, <<tnow - 1>>} }

\* the write of the object a driver returned
WriteJob(dbs, service, job, obj) ==
  IF service = "getForecasts" THEN writeForecast(dbs, One(setModel(obj, Text(job[1]))))
  ELSE IF job[1] = "Verification" THEN writeDaily(dbs, One(obj), "forecast", "verif")
  ELSE writeTimeSeries(dbs, One(obj), "forecast", "obs")

StartRun(service) ==
  [pc |-> "driver", service |-> service, job |-> 1, obj |-> Null,
   invoked |-> <<>>, written |-> <<>>, failed |-> {}, wfailed |-> {}]

\* the loop goes on with the next pair, or ends
Continue(r) ==
  [r EXCEPT !.job = @ + 1, !.obj = Null,
            !.pc = IF r.job + 1 > Len(Jobs(r.service)) THEN "done" ELSE "driver"]

\* a variant of Failed that re-raises whatever the traceback option is
FailedAlwaysRaises(r) == [r EXCEPT !.pc = "raised"]

\* the except clauses: re-raise under the traceback option, else go on
Failed(r) == IF config.traceback THEN [r EXCEPT !.pc = "raised"] ELSE Continue(r)

\* forecast = get_object(driver).main(config, model, stid, forecast_date)
DoDriver ==
  /\ run.pc = "driver"
  /\ \E result \in DriverResults(run.service, Jobs(run.service)[run.job], now) :
        /\ run' = IF result.exc # ""
                  THEN Failed([run EXCEPT !.invoked = Append(@, run.job),
                                          !.failed = @ \cup {run.job}])
                  ELSE [run EXCEPT !.invoked = Append(@, run.job),
                                   !.pc = "write", !.obj = result.ret]
        /\ last' = [NoCall EXCEPT !.op = "driver", !.args = [job |-> run.job],
                                  !.exc = result.exc, !.pre = db]
  /\ UNCHANGED <<db, now, nops, heap, config>>

\* the state after the write of the pair at hand had the outcome out
AfterWrite(out) ==
  /\ db' = out.dbs
  /\ last' = [op |-> "write", args |-> [job |-> run.job], exc |-> out.exc, ret |-> out.ret,
              opened |-> out.opened, closed |-> out.closed, pre |-> db]
  /\ run' = IF out.exc # ""
            THEN Failed([run EXCEPT !.written = Append(@, run.job),
                                    !.wfailed = @ \cup {run.job}])
            ELSE Continue([run EXCEPT !.written = Append(@, run.job)])

\* writeForecast(config, forecast), writeDaily(..., 'verif'), writeTimeSeries(..., 'obs')
DoWriteJob ==
  /\ run.pc = "write"
  /\ AfterWrite(WriteJob(db, run.service, Jobs(run.service)[run.job], run.obj))
  /\ UNCHANGED <<now, nops, heap, config>>

\* the database after init on an empty archive
CreatedDatabase == [t \in TableNames |-> CreateTable(schema[t[2]])]

\* a service starts on a database that init has created, with or without the
\* tables of the second station
InitRetrieval ==
  /\ \E traceback \in BOOLEAN : config = [DefaultConfig EXCEPT !.traceback = traceback]
  /\ \E tables \in {CreatedDatabase, RemoveTables(CreatedDatabase, "KPDX")} :
        db = [d \in Databases |-> tables]
  /\ now = Now0 + 12
  /\ last = [NoCall EXCEPT !.pre = db]
  /\ nops = 0
  /\ heap = <<>>
  /\ \E service \in {"getForecasts", "getVerification"} : run = StartRun(service)

NextRetrieval ==
  \/ DoDriver
  \/ DoWriteJob

SpecRetrieval == InitRetrieval /\ [][NextRetrieval]_vars

(***************************************************************************)
(* Two callers of writeDaily at the same time, each on the VERIF or the    *)
(* DAILY_FORECAST table of its own station, in one SQLite database file.   *)
(* A call is four steps: sqlite3.connect, executemany, commit and close.   *)
(* SQLite locks the database file, not the table: the first statement of   *)
(* executemany takes the write lock of the file, and commit gives it back. *)
(* A caller that finds the lock taken waits in SQLite's busy handler, for  *)
(* the 5 seconds of sqlite3.connect's default timeout at most, and then    *)
(* raises OperationalError (database is locked).  run holds the two calls  *)
(* (w), the holder of the write lock (lock, 0 for none) and the database   *)
(* before the calls (start).                                               *)
(***************************************************************************)
Writers == {1, 2}

\* the call of caller p: its table and the rows writeDaily builds
WriterCall(p, daily, table_type) ==
  [pc |-> "open",
   table |-> TableName(daily.stid, Upper(table_type)),
   values |-> <<daily_to_row(daily, date_to_string(daily.date), daily.model, table_type)>>,
   staged |-> NoTable, exc |-> ""]

\* conn = connection(config, database); cursor = conn.cursor()
WOpen(p) ==
  /\ run.pc = "writers" /\ run.w[p].pc = "open"
  /\ run' = [run EXCEPT !.w[p].pc = "execute"]
  /\ UNCHANGED <<db, now, last, nops, heap, config>>

\* cursor.executemany(...) while no other connection holds the write lock
WExecute(p) ==
  /\ run.pc = "writers" /\ run.w[p].pc = "execute" /\ run.lock = 0
  /\ LET tab == TableOf(db["forecast"], run.w[p].table)
         r == ExecMany(tab, "REPLACE", run.w[p].values, Len(run.w[p].values[1]), 1)
     IN run' = IF ~tab.exists \/ Len(run.w[p].values[1]) # Len(tab.columns)
               THEN [run EXCEPT !.w[p].pc = "raised", !.w[p].exc = "OperationalError"]
               ELSE IF r.exc # ""
               THEN [run EXCEPT !.w[p].pc = "raised", !.w[p].exc = r.exc]
               ELSE [run EXCEPT !.w[p].pc = "commit", !.w[p].staged = r.tab, !.lock = p]
  /\ UNCHANGED <<db, now, last, nops, heap, config>>

\* cursor.executemany(...) while another connection holds the write lock, and
\* keeps it for longer than the timeout
WLocked(p) ==
  /\ run.pc = "writers" /\ run.w[p].pc = "execute" /\ run.lock \notin {0, p}
  /\ run' = [run EXCEPT !.w[p].pc = "raised", !.w[p].exc = "OperationalError"]
  /\ UNCHANGED <<db, now, last, nops, heap, config>>

\* conn.commit()
WCommit(p) ==
  /\ run.pc = "writers" /\ run.w[p].pc = "commit"
  /\ db' = [db EXCEPT !["forecast"][run.w[p].table] = run.w[p].staged]
  /\ run' = [run EXCEPT !.w[p].pc = "close", !.lock = 0]
  /\ UNCHANGED <<now, last, nops, heap, config>>

\* conn.close()
WClose(p) ==
  /\ run.pc = "writers" /\ run.w[p].pc = "close"
  /\ run' = [run EXCEPT !.w[p].pc = "done"]
  /\ UNCHANGED <<db, now, last, nops, heap, config>>

\* the tables exist, and the table of the first caller may hold a row
InitWriters ==
  /\ config = DefaultConfig
  /\ now = Now0
  /\ \E rows \in {<<>>, <<VerifRow(now - Days(29), 60)>>} :
        db = [d \in Databases |->
                [CreatedDatabase EXCEPT ![<<"KSEA", "VERIF">>].rows = rows]]
  /\ last = [NoCall EXCEPT !.pre = db]
  /\ nops = 0
  /\ heap = <<>>
  /\ \E t1, t2 \in {"verif", "daily_forecast"}, m1, m2 \in Measurements :
        run = [pc |-> "writers", lock |-> 0, start |-> db,
               w |-> << WriterCall(1, MakeDaily("KSEA", now - Days(29), Text("GFS"), m1), t1),
                        WriterCall(2, MakeDaily("KPDX", now - Days(29), Text("GFS"), m2), t2) >>]

NextWriters ==
  \E p \in Writers :
     \/ WOpen(p)
     \/ WExecute(p)
     \/ WLocked(p)
     \/ WCommit(p)
     \/ WClose(p)

SpecWriters == InitWriters /\ [][NextWriters]_vars

(***************************************************************************)
(* The populated database on a day of 2026 or on the last day of the leap  *)
(* year 2028: the other tables are fresh, and the newest row of each       *)
(* station's CLIMO table is of 31 December of the last complete leap year  *)
(* or of the day before.                                                   *)
(***************************************************************************)
ClimoDatabase(older, tnow) ==
  [t \in TableNames |->
     LET key == t[2]
         time == FreshTime(key, tnow) - (IF key = "CLIMO" THEN Days(older[t[1]]) ELSE 0)
     IN [CreateTable(schema[key]) EXCEPT !.rows = <<AgedRow(t[1], key, time)>>]]

InitClimo ==
  /\ now \in {Now0, December31(2028)}
  /\ \E older \in [Stations -> {0, 1}] :
        db = [d \in Databases |-> ClimoDatabase(older, now)]
  /\ last = [NoCall EXCEPT !.pre = db]
  /\ nops = 0
  /\ heap = <<>>
  /\ run = NoRun
  /\ config = DefaultConfig

SpecClimo == InitClimo /\ [][NextAged]_vars

(***************************************************************************)
(* The engine run (engine.main): db.init, then the backfill (-b) or the    *)
(* reset (-r) asked for on the command line and the end of the run, or     *)
(* else the historical backfill of the stations init returned and the      *)
(* services.  run holds the position of the engine (pc), the options, the  *)
(* list init returned, the list and the positions of the loops, and the    *)
(* log of what the run has called so far.  A service, and the historical   *)
(* function of a service, returns or raises.                               *)
(***************************************************************************)
\* config['Engine']['Services']: two retrieval services, one output service
ServiceOrder == <<"getForecasts", "getVerification", "makePlots">>

\* an option of the command line that was not given, or its list of stations
NotGiven == [given |-> FALSE, stids |-> <<>>]

Given(stids) == [given |-> TRUE, stids |-> stids]

StartEngine(b_stid, r_stid) ==
  [pc |-> "init", b_stid |-> b_stid, r_stid |-> r_stid, add_sites |-> <<>>,
   sites |-> <<>>, i |-> 1, j |-> 1, exit_after |-> FALSE, log |-> <<>>]

\* the loop over the services, at service j
LoopServices(r) ==
  IF r.j <= Len(ServiceOrder) THEN [r EXCEPT !.pc = "services"] ELSE [r EXCEPT !.pc = "end"]

\* the loop over the stations to backfill, at station i
LoopSites(r) ==
  IF r.i <= Len(r.sites) THEN [r EXCEPT !.pc = "backfill"]
  ELSE IF r.exit_after THEN [r EXCEPT !.pc = "exit"]
  ELSE LoopServices([r EXCEPT !.j = 1])

\* the loop over the stations to remove, at station i
LoopRemove(r) ==
  IF r.i <= Len(r.sites) THEN [r EXCEPT !.pc = "remove"] ELSE [r EXCEPT !.pc = "exit"]

\* a variant of AfterInit that goes on to the services without the backfill
AfterInitNoBackfill(r, add_sites) ==
  LoopServices([r EXCEPT !.add_sites = add_sites, !.log = Append(@, <<"init", "">>)])

\* what follows add_sites = thetae.db.init(config)
AfterInit(r, add_sites) ==
  LET r1 == [r EXCEPT !.add_sites = add_sites, !.log = Append(@, <<"init", "">>), !.i = 1]
  IN IF r.b_stid.given
     THEN LoopSites([r1 EXCEPT !.sites = IF Len(r.b_stid.stids) = 0 THEN StationOrder
                                         ELSE r.b_stid.stids,
                               !.exit_after = TRUE])
     ELSE IF r.r_stid.given
     THEN IF Len(r.r_stid.stids) = 0 THEN [r1 EXCEPT !.pc = "exit"]
          ELSE LoopRemove([r1 EXCEPT !.sites = r.r_stid.stids])
     ELSE LoopSites([r1 EXCEPT !.sites = add_sites])

\* the call of db.init had the outcome out
EngineInit(out) ==
  /\ db' = out.dbs
  /\ last' = [op |-> "init", args |-> [reset_old |-> FALSE], exc |-> out.exc, ret |-> out.ret,
              opened |-> out.opened, closed |-> out.closed, pre |-> db]
  /\ run' = IF out.exc # "" THEN [run EXCEPT !.pc = "raised"] ELSE AfterInit(run, out.ret)

\* add_sites = thetae.db.init(config)
DoEngineInit ==
  /\ run.pc = "init"
  /\ EngineInit(init(db, FALSE, now))
  /\ UNCHANGED <<now, nops, heap, config>>

\* the historical functions of the services store, through _write, rows up
\* to the present in the five tables of the station
RECURSIVE Backfilled(_, _, _, _)
Backfilled(dbs, stid, tnow, t) ==
  IF t > Len(SchemaKeys) THEN dbs
  ELSE Backfilled(_write(dbs, <<AgedRow(stid, SchemaKeys[t], FreshTime(SchemaKeys[t], tnow))>>,
                         "forecast", TableName(stid, SchemaKeys[t]), TRUE).dbs,
                  stid, tnow, t + 1)

\* historical(config, stid): the data sources answer, or one of them fails
DoHistorical ==
  /\ run.pc = "backfill"
  /\ \E ok \in BOOLEAN :
        LET stid == run.sites[run.i]
            r1 == [run EXCEPT !.log = Append(@, <<"historical", stid>>), !.i = @ + 1]
        IN /\ db' = IF ok THEN Backfilled(db, stid, now, 1) ELSE db
           /\ run' = IF ~ok /\ config.traceback THEN [r1 EXCEPT !.pc = "raised"]
                     ELSE LoopSites(r1)
           /\ last' = [NoCall EXCEPT !.op = "historical", !.args = [stid |-> stid],
                                     !.exc = IF ok THEN "" ELSE "Exception", !.pre = db]
  /\ UNCHANGED <<now, nops, heap, config>>

\* the object the driver of a pair returns when it answers
DriverObject(service, job, tnow) ==
  (CHOOSE r \in DriverResults(service, job, tnow) :
      r.exc = "" /\ ("data" \in DOMAIN r.ret => Len(r.ret.data) > 0)).ret

\* the writes of a retrieval service whose drivers all answer
RECURSIVE RunJobs(_, _, _, _)
RunJobs(dbs, service, tnow, j) ==
  IF j > Len(Jobs(service)) THEN dbs
  ELSE RunJobs(WriteJob(dbs, service, Jobs(service)[j],
                        DriverObject(service, Jobs(service)[j], tnow)).dbs,
               service, tnow, j + 1)

\* get_object(service).main(config): the service returns or raises
DoService ==
  /\ run.pc = "services"
  /\ \E ok \in BOOLEAN :
        LET service == ServiceOrder[run.j]
            r1 == [run EXCEPT !.log = Append(@, <<"service", service>>), !.j = @ + 1]
        IN /\ db' = IF ok /\ service # "makePlots" THEN RunJobs(db, service, now, 1) ELSE db
           /\ run' = IF ~ok /\ config.traceback THEN [r1 EXCEPT !.pc = "raised"]
                     ELSE LoopServices(r1)
           /\ last' = [NoCall EXCEPT !.op = "service", !.args = [service |-> service],
                                     !.exc = IF ok THEN "" ELSE "Exception", !.pre = db]
  /\ UNCHANGED <<now, nops, heap, config>>

\* the call of db.remove had the outcome out
EngineRemove(stid, out) ==
  /\ db' = out.dbs
  /\ last' = [op |-> "remove", args |-> [stid |-> stid], exc |-> out.exc, ret |-> out.ret,
              opened |-> out.opened, closed |-> out.closed, pre |-> db]
  /\ run' = IF out.exc # "" THEN [run EXCEPT !.pc = "raised"]
            ELSE LoopRemove([run EXCEPT !.log = Append(@, <<"remove", stid>>), !.i = @ + 1])

\* thetae.db.remove(config, stid)
DoEngineRemove ==
  /\ run.pc = "remove"
  /\ EngineRemove(run.sites[run.i], remove(db, run.sites[run.i]))
  /\ UNCHANGED <<now, nops, heap, config>>

\* the engine starts on an empty archive, on tables without rows, on a
\* database with one stale table or on one that is up to date
InitEngine ==
  /\ \E traceback \in BOOLEAN : config = [DefaultConfig EXCEPT !.traceback = traceback]
  /\ now = Now0
  /\ \E tables \in {EmptyDatabase, CreatedDatabase,
                    AgedDatabase(<<"KPDX", "VERIF">>, 2, now),
                    AgedDatabase(<<"KPDX", "VERIF">>, 0, now)} :
        db = [d \in Databases |-> tables]
  /\ last = [NoCall EXCEPT !.pre = db]
  /\ nops = 0
  /\ heap = <<>>
  /\ \E options \in { <<NotGiven, NotGiven>>, <<Given(<<>>), NotGiven>>,
                      <<Given(<<"KSEA">>), NotGiven>>, <<NotGiven, Given(<<>>)>>,
                      <<NotGiven, Given(<<"KSEA">>)>>, <<Given(<<"KSEA">>), Given(<<"KPDX">>)>> } :
        run = StartEngine(options[1], options[2])

NextEngine ==
  \/ DoEngineInit
  \/ DoHistorical
  \/ DoService
  \/ DoEngineRemove

SpecEngine == InitEngine /\ [][NextEngine]_vars

(***************************************************************************)
(* The backfill of a station: the populated database in which one or two   *)
(* tables of KSEA are empty or hold a single row two days past the         *)
(* retention window.  Calls of init alternate with writes of one row, 29   *)
(* or 31 days old (for CLIMO: of the last day of the last complete leap    *)
(* year, or two days before it), into a table of KSEA.                     *)
(***************************************************************************)
BackfillDatabase(needy, empty, tnow) ==
  [t \in TableNames |->
     LET tab == AgedDatabase(t, 2, tnow)[t]
     IN IF t \in needy
        THEN (IF empty THEN [tab EXCEPT !.rows = <<>>] ELSE tab)
        ELSE AgedDatabase(t, 0, tnow)[t]]

InitBackfill ==
  /\ \E k1, k2 \in {"VERIF", "DAILY_FORECAST", "CLIMO", "OBS"}, empty \in BOOLEAN :
        db = [d \in Databases |->
                BackfillDatabase({TableName("KSEA", k1), TableName("KSEA", k2)}, empty, Now0)]
  /\ now = Now0
  /\ last = [NoCall EXCEPT !.pre = db]
  /\ nops = 0
  /\ heap = <<>>
  /\ run = NoRun
  /\ config = DefaultConfig

\* one row is written to a table of KSEA, as the writers do (replace = True)
DoWriteRow ==
  /\ nops < MaxOps
  /\ \E key \in {"VERIF", "DAILY_FORECAST", "CLIMO", "OBS"}, older \in {0, 2} :
     LET values == <<AgedRow("KSEA", key, FreshTime(key, now) - Days(older))>>
     IN Call("_write",
             [values |-> values, table |-> TableName("KSEA", key), replace |-> TRUE],
             _write(db, values, "forecast", TableName("KSEA", key), TRUE))

NextBackfill ==
  \/ DoInit
  \/ DoWriteRow
  \/ Tick

SpecBackfill == InitBackfill /\ [][NextBackfill]_vars

(***************************************************************************)
(* Two runs of db.init(config) on the same database file, interleaved at   *)
(* the statements they execute.  A run reads the table catalog once per    *)
(* station and then, table by table, executes CREATE TABLE for a name the  *)
(* catalog it read did not have, or the SELECT of the newest key for a     *)
(* name it had.  Every statement is executed on its own (sqlite3 opens no  *)
(* transaction for a SELECT or for DDL), so a CREATE TABLE of one run is   *)
(* in the file when the next statement of the other run executes.          *)
(* run.r[p] is the position of run p: the data binding b, the station i,   *)
(* the table t, the catalog it read (names), add_site and add_sites.       *)
(***************************************************************************)
Inits == {1, 2}

InitRun ==
  [pc |-> "open", b |-> 1, i |-> 1, t |-> 1, names |-> {}, add_site |-> FALSE,
   add_sites |-> <<>>, exc |-> ""]

SetRun(p, w) ==
  /\ run' = [run EXCEPT !.r[p] = w]
  /\ UNCHANGED <<now, last, nops, heap, config>>

\* conn = connection(config, database); IOError if it is None
IOpen(p) ==
  LET w == run.r[p]
  IN /\ run.pc = "inits" /\ w.pc = "open"
     /\ IF connection(BindingDatabase(w.b)) = Null
        THEN SetRun(p, [w EXCEPT !.pc = "raised", !.exc = "IOError"])
        ELSE SetRun(p, [w EXCEPT !.pc = "read", !.i = 1])
     /\ db' = db

\* SELECT name FROM sqlite_master WHERE type='table', for the station i
IRead(p) ==
  LET w == run.r[p]
  IN /\ run.pc = "inits" /\ w.pc = "read"
     /\ SetRun(p, [w EXCEPT !.pc = "table", !.t = 1, !.add_site = FALSE,
                            !.names = sql_table_names(db[BindingDatabase(w.b)])])
     /\ db' = db

\* the position after the table t, r being what InitTable did: the next
\* table, or the end of the station (add_sites), or the end of the stations
AfterTable(w, r) ==
  LET stid == StationOrder[w.i]
      listed == \E j \in 1..Len(w.add_sites) : w.add_sites[j] = stid
      sites == IF r.add_site /\ ~listed THEN Append(w.add_sites, stid) ELSE w.add_sites
  IN IF r.exc # "" THEN [w EXCEPT !.pc = "raised", !.exc = r.exc]
     ELSE IF w.t < Len(SchemaKeys) THEN [w EXCEPT !.t = w.t + 1, !.add_site = r.add_site]
     ELSE IF w.i < Len(StationOrder)
     THEN [w EXCEPT !.pc = "read", !.i = w.i + 1, !.add_sites = sites]
     ELSE [w EXCEPT !.pc = "close", !.add_sites = sites]

TableDone(p, r) ==
  /\ db' = [db EXCEPT ![BindingDatabase(run.r[p].b)] = r.tables]
  /\ SetRun(p, AfterTable(run.r[p], r))

\* the table t of the station i: CREATE TABLE, or the SELECT of its newest key
ITable(p) ==
  LET w == run.r[p]
  IN /\ run.pc = "inits" /\ w.pc = "table"
     /\ TableDone(p, InitTable([tables |-> db[BindingDatabase(w.b)],
                                add_site |-> w.add_site, exc |-> ""],
                               StationOrder[w.i], SchemaKeys[w.t], w.names, FALSE, now))

\* conn.close(), then the next data binding or the return of add_sites
IClose(p) ==
  LET w == run.r[p]
  IN /\ run.pc = "inits" /\ w.pc = "close"
     /\ SetRun(p, IF w.b < Len(config.BindingOrder)
                  THEN [w EXCEPT !.pc = "open", !.b = w.b + 1]
                  ELSE [w EXCEPT !.pc = "done"])
     /\ db' = db

\* the database file at the start: without a table, with the tables of KSEA
\* alone, or with all tables; the archive directory may be missing
InitInits ==
  /\ \E archive \in BOOLEAN : config = [DefaultConfig EXCEPT !.archive = archive]
  /\ now = Now0
  /\ \E tables \in {EmptyDatabase, RemoveTables(AgedDatabase(<<"KSEA", "VERIF">>, 0, Now0), "KPDX"),
                    AgedDatabase(<<"KSEA", "VERIF">>, 2, Now0)} :
        db = [d \in Databases |-> tables]
  /\ last = [NoCall EXCEPT !.pre = db]
  /\ nops = 0
  /\ heap = <<>>
  /\ run = [pc |-> "inits", start |-> db, r |-> [p \in Inits |-> InitRun]]

NextInits ==
  \E p \in Inits :
     \/ IOpen(p)
     \/ IRead(p)
     \/ ITable(p)
     \/ IClose(p)

SpecInits == InitInits /\ [][NextInits]_vars

(***************************************************************************)
(* Properties.                                                             *)
(***************************************************************************)
InList(seq, x) == \E i \in 1..Len(seq) : seq[i] = x

\* the tables of station s, before and after the latest call
Before(d, s, k) == last.pre[d][<<s, k>>]

After(d, s, k) == db[d][<<s, k>>]

\* the chronologically newest timestamp of a table that has rows
Newest(tab) ==
  LET times == {tab.rows[i][1].n : i \in 1..Len(tab.rows)}
  IN CHOOSE m \in times : \A o \in times : o <= m

\* C1: when init returns, a station that had no table before the call has a
\* table <STID>_<TABLE_TYPE> for every table-type of the schema, and is in the
\* returned list
C1_InitCreatesTables ==
  (last.op = "init" /\ last.exc = "") =>
     \A d \in Databases, s \in Stations :
        (\A k \in TableTypes : ~Before(d, s, k).exists) =>
           /\ \A k \in {"OBS", "HOURLY_FORECAST", "VERIF", "DAILY_FORECAST", "CLIMO"} :
                 After(d, s, k).exists
           /\ InList(last.ret, s)

\* init has returned; KPDX had no table and KSEA had its tables
C1_Witness ==
  /\ last.op = "init" /\ last.exc = ""
  /\ \A k \in TableTypes : ~Before("forecast", "KPDX", k).exists
  /\ \A k \in TableTypes : Before("forecast", "KSEA", k).exists
  /\ \A k \in TableTypes : After("forecast", "KPDX", k).exists
  /\ InList(last.ret, "KPDX")

\* the newest timestamp of the CLIMO table is not before 31 December of the
\* last complete leap year
ClimoCurrent(tab) ==
  Len(tab.rows) > 0 /\ Newest(tab) >= December31(last_leap_year(now))

\* C5: when init returns, a station all of whose tables exist, with a newest
\* timestamp 29 days old in every table but CLIMO (and a current CLIMO table),
\* is not in the returned list; a station with a table, other than CLIMO,
\* whose newest timestamp is 31 days old is in the returned list
C5_RetentionThirtyDays ==
  (last.op = "init" /\ last.exc = "") =>
     \A s \in Stations :
        /\ ( /\ \A d \in Databases, k \in TableTypes :
                   Before(d, s, k).exists /\ Len(Before(d, s, k).rows) > 0
             /\ \A d \in Databases, k \in TableTypes \ {"CLIMO"} :
                   now - Newest(Before(d, s, k)) = Days(29)
             /\ \A d \in Databases : ClimoCurrent(Before(d, s, "CLIMO")) )
           => ~InList(last.ret, s)
        /\ ( \E d \in Databases, k \in TableTypes \ {"CLIMO"} :
                /\ Before(d, s, k).exists /\ Len(Before(d, s, k).rows) > 0
                /\ now - Newest(Before(d, s, k)) = Days(31) )
           => InList(last.ret, s)

\* init has returned: every table of KSEA was 29 days old and KSEA is not
\* listed, a table of KPDX was 31 days old and KPDX is listed
C5_Witness ==
  /\ last.op = "init" /\ last.exc = ""
  /\ \A k \in TableTypes \ {"CLIMO"} :
        /\ Len(Before("forecast", "KSEA", k).rows) > 0
        /\ now - Newest(Before("forecast", "KSEA", k)) = Days(29)
  /\ ~InList(last.ret, "KSEA")
  /\ Len(Before("forecast", "KPDX", "VERIF").rows) > 0
  /\ now - Newest(Before("forecast", "KPDX", "VERIF")) = Days(31)
  /\ InList(last.ret, "KPDX")

\* a table is stale: it has no row, or its newest timestamp is older than its
\* retention window
StaleTable(tab, k) ==
  \/ Len(tab.rows) = 0
  \/ k # "CLIMO" /\ now - Newest(tab) > Days(30)
  \/ k = "CLIMO" /\ ~ClimoCurrent(tab)

\* C6: when init returns, a table that existed and was stale is unchanged if
\* reset_old is False and is an empty table with the schema's columns if
\* reset_old is True, and its station is in the returned list; whatever init
\* does, a table whose newest row is inside its retention window is unchanged
C6_StalePolicy ==
  last.op = "init" =>
     \A d \in Databases, s \in Stations, k \in TableTypes :
        LET old == Before(d, s, k)
        IN /\ (last.exc = "" /\ old.exists /\ StaleTable(old, k)) =>
                /\ InList(last.ret, s)
                /\ ~last.args.reset_old => After(d, s, k) = old
                /\ last.args.reset_old =>
                     /\ After(d, s, k).exists
                     /\ After(d, s, k).rows = <<>>
                     /\ After(d, s, k).columns =
                          SelectSeq([i \in 1..Len(schema[k]) |-> schema[k][i].name],
                                    LAMBDA c : c # "PRIMARY KEY")
           /\ (old.exists /\ ~StaleTable(old, k)) => After(d, s, k) = old

\* init(reset_old=True) has returned: a stale table that had a row is empty,
\* and a table of the same station inside its window still has its row
C6_Witness ==
  /\ last.op = "init" /\ last.exc = "" /\ last.args.reset_old
  /\ \E k \in TableTypes :
        /\ Len(Before("forecast", "KSEA", k).rows) > 0
        /\ StaleTable(Before("forecast", "KSEA", k), k)
        /\ After("forecast", "KSEA", k).exists
        /\ After("forecast", "KSEA", k).rows = <<>>
  /\ \E k \in TableTypes :
        /\ ~StaleTable(Before("forecast", "KSEA", k), k)
        /\ Len(After("forecast", "KSEA", k).rows) > 0

\* the single Daily of a writeDaily call
Written == last.args.daily.items[1]

\* C2: writeDaily of one Daily with a text label, followed by readDaily of the
\* same station on the window start = end = the Daily's date with the same
\* label, returns one Daily with the high, low, wind and rain written
C2_RoundTrip ==
  [][ ( /\ last.op = "writeDaily" /\ last.exc = ""
        /\ ~last.args.daily.is_list
        /\ last.args.table_type = "daily_forecast"
        /\ Written.model.k = "text"
        /\ last'.op = "readDaily"
        /\ last'.args.stid = Written.stid
        /\ last'.args.table_type = "daily_forecast"
        /\ last'.args.model = Written.model
        /\ last'.args.start_date = Written.date
        /\ last'.args.end_date = Written.date
        /\ ~last'.args.force_list )
      => ( /\ last'.exc = ""
           /\ last'.ret.k = "daily"
           /\ last'.ret.v.high = Written.high
           /\ last'.ret.v.low = Written.low
           /\ last'.ret.v.wind = Written.wind
           /\ last'.ret.v.rain = Written.rain ) ]_vars

\* the number of rows of tab equal to row
RowCount(tab, row) == Cardinality({i \in 1..Len(tab.rows) : tab.rows[i] = row})

\* two tables hold the same rows, each the same number of times
SameRows(t1, t2) ==
  /\ t1.exists = t2.exists
  /\ Len(t1.rows) = Len(t2.rows)
  /\ \A i \in 1..Len(t1.rows) : RowCount(t1, t1.rows[i]) = RowCount(t2, t1.rows[i])

\* two rows of a table have the same timestamp and, in a table with a Model
\* column, the same Model
SameKey(tab, r1, r2) ==
  /\ r1[1] = r2[1]
  /\ HasColumn(tab, "MODEL") => r1[2] = r2[2]

OneRowPerKey(tab) ==
  \A i, j \in 1..Len(tab.rows) : SameKey(tab, tab.rows[i], tab.rows[j]) => i = j

\* C3: a writeDaily or writeTimeSeries call that succeeded, repeated with the
\* same arguments, succeeds, leaves every table with the rows it had after
\* the first call and leaves one row per key
C3_ReplaceIdempotent ==
  [][ ( /\ last.op \in {"writeDaily", "writeTimeSeries"} /\ last.exc = ""
        /\ last'.op = last.op
        /\ last'.args = last.args )
      => ( /\ last'.exc = ""
           /\ \A d \in Databases, t \in TableNames :
                 SameRows(db'[d][t], db[d][t]) /\ OneRowPerKey(db'[d][t]) ) ]_vars

\* the table a _write call names, before and after the call
WriteBefore == last.pre["forecast"][last.args.table]

WriteAfter == db["forecast"][last.args.table]

\* C4: _write with replace=False of a row whose key is the key of a row of the
\* table raises and leaves the table unchanged
C4_InsertCollisionRaises ==
  ( /\ last.op = "_write" /\ ~last.args.replace
    /\ Len(last.args.values) = 1
    /\ WriteBefore.exists
    /\ Len(last.args.values[1]) = Len(WriteBefore.columns)
    /\ \E i \in 1..Len(WriteBefore.rows) :
          SameKey(WriteBefore, WriteBefore.rows[i], last.args.values[1]) )
  => (last.exc # "" /\ db = last.pre)

MixedStations(items) == \E i, j \in 1..Len(items) : items[i].stid # items[j].stid

\* C7: writeDaily, writeTimeSeries and writeForecast of a list whose objects
\* are not all of one station raise ValueError, open no connection and leave
\* the databases unchanged
C7_MixedStationsRejected ==
  LET rejected == last.exc = "ValueError" /\ last.opened = 0 /\ db = last.pre
  IN /\ ( /\ last.op = "writeDaily" /\ last.args.daily.is_list
          /\ MixedStations(last.args.daily.items) ) => rejected
     /\ ( /\ last.op = "writeTimeSeries" /\ last.args.timeseries.is_list
          /\ MixedStations(last.args.timeseries.items) ) => rejected
     /\ ( /\ last.op = "writeForecast" /\ last.args.forecast.is_list
          /\ MixedStations(last.args.forecast.items) ) => rejected

\* writeDaily of a list of Dailys of two stations has been rejected while the
\* tables of both stations existed
C7_Witness ==
  /\ last.op = "writeDaily" /\ last.args.daily.is_list
  /\ MixedStations(last.args.daily.items)
  /\ \A s \in Stations : last.pre["forecast"][<<s, "DAILY_FORECAST">>].exists
  /\ last.exc = "ValueError" /\ last.opened = 0

\* C8: _write of a list that is empty or holds tuples of two lengths raises,
\* opens no connection and leaves the databases unchanged
C8_BadShapeRejected ==
  ( /\ last.op = "_write"
    /\ \/ Len(last.args.values) = 0
       \/ \E i, j \in 1..Len(last.args.values) :
             Len(last.args.values[i]) # Len(last.args.values[j]) )
  => (last.exc # "" /\ last.opened = 0 /\ db = last.pre)

\* C9: after a _write call the databases are as before the call, or the call
\* raised nothing and every row of the batch is in the table (or a later row
\* of the batch with the same key is); a call that raised changed nothing
C9_WriteAtomic ==
  last.op = "_write" =>
     /\ last.exc # "" => db = last.pre
     /\ last.exc = "" =>
          /\ \A d \in Databases, t \in TableNames \ {last.args.table} :
                db[d][t] = last.pre[d][t]
          /\ \A i \in 1..Len(last.args.values) :
                \/ RowCount(WriteAfter, last.args.values[i]) > 0
                \/ \E j \in (i + 1)..Len(last.args.values) :
                      SameKey(WriteAfter, last.args.values[i], last.args.values[j])

\* an INSERT of two rows has raised on its second row, whose key was in the
\* table; the first row, whose key was not, is not in the table
C9_Witness ==
  /\ last.op = "_write" /\ ~last.args.replace
  /\ Len(last.args.values) = 2
  /\ last.exc = "IntegrityError"
  /\ \A i \in 1..Len(WriteBefore.rows) :
        ~SameKey(WriteBefore, WriteBefore.rows[i], last.args.values[1])
  /\ \E i \in 1..Len(WriteBefore.rows) :
        SameKey(WriteBefore, WriteBefore.rows[i], last.args.values[2])
  /\ RowCount(WriteAfter, last.args.values[1]) = 0

\* the window the defaulting rule gives a read: <<lo, hi, open>>, the hours of
\* its two ends and whether lo itself is outside it (utcnow() is past the
\* start of its hour, so a row at the start of that hour is before it)
ClaimedWindow(start_date, end_date) ==
  CASE start_date.k # "null" /\ end_date.k = "null" ->
         <<start_date.n, start_date.n + 24, FALSE>>
    [] start_date.k = "null" /\ end_date.k # "null" ->
         <<end_date.n - 24, end_date.n, FALSE>>
    [] start_date.k = "null" /\ end_date.k = "null" -> <<now, now + 24, TRUE>>
    [] OTHER -> <<start_date.n, end_date.n, FALSE>>

InClaimedWindow(row, w) ==
  /\ IF w[3] THEN w[1] < row[1].n ELSE w[1] <= row[1].n
  /\ row[1].n <= w[2]

ReadRows(out) == IF out.ret.k = "null" THEN {} ELSE {out.ret.rows[i] : i \in 1..Len(out.ret.rows)}

\* C10: a _read without a model returns the rows of the table inside the
\* window of the defaulting rule ([T, T+24h] for start_date=T alone,
\* [T-24h, T] for end_date=T alone, [now, now+24h] for neither, the dates
\* as given for both); and a read with start_date=T alone returns what a read
\* with start_date=T and end_date=T+24h returns
C10_WindowDefaulting ==
  /\ (last.op = "_read" /\ last.exc = "" /\ last.args.model.k = "null") =>
        ReadRows(last) =
          {r \in {last.pre["forecast"][last.args.table].rows[i] :
                    i \in 1..Len(last.pre["forecast"][last.args.table].rows)} :
             InClaimedWindow(r, ClaimedWindow(last.args.start_date, last.args.end_date))}
  /\ \A k \in {"DAILY_FORECAST", "VERIF"}, t \in Dates(now), model \in {Null, Text("GFS")} :
        \A T \in {DateTime(t), DateStr(t, FmtSec)} :
           LET alone == _read(db, "forecast", <<"KSEA", k>>, model, T, Null, now)
               both == _read(db, "forecast", <<"KSEA", k>>, model, T, DateTime(t + 24), now)
           IN /\ alone.exc = both.exc
              /\ alone.ret.k = both.ret.k
              /\ ReadRows(alone) = ReadRows(both)

\* a _read with start_date alone has returned two rows, one at the start and
\* one at the end of the window, from a table that has them
C10_Witness ==
  /\ last.op = "_read" /\ last.exc = ""
  /\ last.args.start_date.k # "null" /\ last.args.end_date.k = "null"
  /\ last.args.model.k = "null"
  /\ last.ret.k = "frame"
  /\ Len(last.ret.rows) = 2
  /\ last.ret.rows[1][1].n = last.args.start_date.n
  /\ last.ret.rows[2][1].n = last.args.start_date.n + 24

\* the table a read names: _read by its name, the readers by station and type
ReadTable ==
  IF last.op = "_read" THEN last.args.table
  ELSE TableName(last.args.stid, Upper(last.args.table_type))

\* the rows of tab inside the window w that a read with the filter model is
\* to find: all of them without a filter, those whose label is the model's
\* after case normalization with one
MatchingRows(tab, model, w) ==
  {i \in 1..Len(tab.rows) :
     /\ InClaimedWindow(tab.rows[i], w)
     /\ model.k # "null" =>
          /\ HasColumn(tab, "MODEL")
          /\ UpperValue(tab.rows[i][ColumnIndex(tab.columns, "MODEL")]) = UpperValue(model)}

\* the latest call is a read of an existing table that has the columns the
\* query names, and no row of the table matches
ReadFindsNothing ==
  LET tab == last.pre["forecast"][ReadTable]
  IN /\ last.op \in {"_read", "readDaily", "readTimeSeries"}
     /\ tab.exists
     /\ last.args.model.k # "null" => HasColumn(tab, "MODEL")
     /\ MatchingRows(tab, last.args.model,
                     ClaimedWindow(last.args.start_date, last.args.end_date)) = {}

\* C11: a _read of an existing table in which no row matches returns None and
\* raises nothing; readTimeSeries and readDaily then raise, and neither ever
\* returns an object without rows or an empty list
C11_AbsentMarker ==
  /\ (last.op = "_read" /\ ReadFindsNothing) => (last.exc = "" /\ last.ret = Null)
  /\ (last.op \in {"readDaily", "readTimeSeries"} /\ ReadFindsNothing) =>
        last.exc = "ValueError"
  /\ (last.op = "readTimeSeries" /\ last.exc = "") =>
        (last.ret.k = "timeseries" /\ Len(last.ret.v.data.rows) > 0)
  /\ (last.op = "readDaily" /\ last.exc = "") =>
        \/ last.ret.k = "daily"
        \/ last.ret.k = "list" /\ Len(last.ret.v) > 0

\* readTimeSeries has raised ValueError on a table that has rows, none of
\* them in the window
C11_Witness ==
  /\ last.op = "readTimeSeries" /\ ReadFindsNothing
  /\ Len(last.pre["forecast"][ReadTable].rows) > 0
  /\ last.exc = "ValueError" /\ last.ret = Null

\* the rows a read returned, in the order of the result
ReturnedRows ==
  IF last.exc # "" \/ last.ret.k = "null" THEN <<>>
  ELSE IF last.op = "readTimeSeries" THEN last.ret.v.data.rows
  ELSE last.ret.rows

\* every timestamp of the table is stored in the form str(datetime) gives a
\* datetime without microseconds, so the texts order as the times do
StoredCanonical(tab) == \A i \in 1..Len(tab.rows) : tab.rows[i][1].s = FmtSec

\* C12: a _read or readTimeSeries that raised nothing returns rows in
\* ascending order of time, all of them inside the window with both ends
\* included; without a model filter it returns each stored row of the window
\* once, whatever the order in which the rows were written
C12_InclusiveAscending ==
  LET tab == last.pre["forecast"][ReadTable]
      w == ClaimedWindow(last.args.start_date, last.args.end_date)
      rows == ReturnedRows
  IN (last.op \in {"_read", "readTimeSeries"} /\ last.exc = "" /\ StoredCanonical(tab)) =>
        /\ \A i, j \in 1..Len(rows) : i < j => rows[i][1].n <= rows[j][1].n
        /\ \A i \in 1..Len(rows) : InClaimedWindow(rows[i], w)
        /\ last.args.model.k = "null" =>
             /\ Len(rows) = Cardinality(MatchingRows(tab, Null, w))
             /\ \A i \in MatchingRows(tab, Null, w) :
                   \E j \in 1..Len(rows) : rows[j] = tab.rows[i]

\* a _read has returned the two rows of a window, the one at its start and
\* the one at its end, in the reverse of the order in which they were written
C12_Witness ==
  LET tab == last.pre["forecast"][ReadTable]
  IN /\ last.op = "_read" /\ last.exc = "" /\ last.args.model.k = "null"
     /\ Len(tab.rows) = 2
     /\ tab.rows[1][1].n > tab.rows[2][1].n
     /\ last.ret.k = "frame"
     /\ last.ret.rows = <<tab.rows[2], tab.rows[1]>>
     /\ last.ret.rows[1][1].n = ClaimedWindow(last.args.start_date, last.args.end_date)[1]
     /\ last.ret.rows[2][1].n = ClaimedWindow(last.args.start_date, last.args.end_date)[2]

\* C13: a _read with a model filter returns the rows of the window whose
\* label, as written, equals the model after case normalization, each once
\* and without its Model column, and no other row
C13_ModelFilter ==
  LET tab == last.pre["forecast"][ReadTable]
      w == ClaimedWindow(last.args.start_date, last.args.end_date)
      m == ColumnIndex(tab.columns, "MODEL")
      rows == ReturnedRows
  IN ( /\ last.op = "_read" /\ last.args.model.k = "text"
       /\ tab.exists /\ HasColumn(tab, "MODEL") /\ StoredCanonical(tab) )
     => /\ last.exc = ""
        /\ Len(rows) = Cardinality(MatchingRows(tab, last.args.model, w))
        /\ \A i \in MatchingRows(tab, last.args.model, w) :
              \E j \in 1..Len(rows) : rows[j] = DropColumn(tab.rows[i], m)

\* C14: readDaily raises when no row matched, returns one Daily when one row
\* matched and force_list is False, and otherwise a list with one Daily per
\* matched row in ascending order of date; every Daily returned has the
\* requested model
C14_ReadDailyShape ==
  LET tab == last.pre["forecast"][ReadTable]
      w == ClaimedWindow(last.args.start_date, last.args.end_date)
      n == Cardinality(MatchingRows(tab, last.args.model, w))
  IN ( /\ last.op = "readDaily" /\ tab.exists /\ StoredCanonical(tab)
       /\ last.args.model.k # "null" => HasColumn(tab, "MODEL") )
     => /\ n = 0 => last.exc # ""
        /\ (n = 1 /\ ~last.args.force_list) =>
              /\ last.exc = ""
              /\ last.ret.k = "daily"
              /\ last.ret.v.model = last.args.model
        /\ (n > 1 \/ (n = 1 /\ last.args.force_list)) =>
              /\ last.exc = ""
              /\ last.ret.k = "list"
              /\ Len(last.ret.v) = n
              /\ \A j \in 1..n : last.ret.v[j].model = last.args.model
              /\ \A j, k \in 1..n : j < k => last.ret.v[j].date.n <= last.ret.v[k].date.n

\* the rows of tab inside the window w whose label is model
LabelledRows(tab, model, w) ==
  {i \in 1..Len(tab.rows) :
     /\ InClaimedWindow(tab.rows[i], w)
     /\ tab.rows[i][ColumnIndex(tab.columns, "MODEL")] = model}

\* C15: readForecast raises when the daily row of the station, model and date
\* is absent, whatever no_hourly_ok is; with the daily row present and no
\* hourly row in the window it raises if no_hourly_ok is False and returns a
\* Forecast with that Daily and a TimeSeries without rows if it is True
C15_ReadForecast ==
  LET a == last.args
      daily == last.pre["forecast"][TableName(a.stid, "DAILY_FORECAST")]
      hourly == last.pre["forecast"][TableName(a.stid, "HOURLY_FORECAST")]
      day == LabelledRows(daily, a.model, <<a.date.n, a.date.n, FALSE>>)
      hours == LabelledRows(hourly, a.model,
                            <<a.date.n + a.hour_start - a.hour_padding,
                              a.date.n + a.hour_start + 24 + a.hour_padding, FALSE>>)
  IN ( /\ last.op = "readForecast" /\ a.hour_start \in 0..23 /\ a.hour_padding \in 0..24
       /\ daily.exists /\ hourly.exists )
     => /\ day = {} => last.exc # ""
        /\ (day # {} /\ hours = {} /\ ~a.no_hourly_ok) => last.exc # ""
        /\ (Cardinality(day) = 1 /\ hours = {} /\ a.no_hourly_ok) =>
              /\ last.exc = ""
              /\ last.ret.k = "forecast"
              /\ Len(last.ret.v.timeseries.data) = 0
              /\ \E i \in day :
                    /\ last.ret.v.daily.date.n = daily.rows[i][1].n
                    /\ last.ret.v.daily.high = daily.rows[i][3]
                    /\ last.ret.v.daily.low = daily.rows[i][4]
                    /\ last.ret.v.daily.wind = daily.rows[i][5]
                    /\ last.ret.v.daily.rain = daily.rows[i][6]

\* C16: the model of every Forecast object, of its TimeSeries and of its
\* Daily are equal; after setModel they are the model set, and setModel
\* returned the object it was called on
C16_SetModelConsistent ==
  /\ \A id \in DOMAIN heap :
        /\ heap[id].timeseries.model = heap[id].model
        /\ heap[id].daily.model = heap[id].model
  /\ last.op = "Forecast" => heap[last.ret.n].model = last.args.model
  /\ last.op = "setModel" =>
        /\ last.ret = Ref(last.args.self)
        /\ heap[last.args.self].model = last.args.model
        /\ heap[last.args.self].timeseries.model = last.args.model
        /\ heap[last.args.self].daily.model = last.args.model

\* the third operation of a run is a setModel with the label 'gfs' on one of
\* two Forecast objects, which now carries that label in its three places
C16_Witness ==
  /\ last.op = "setModel" /\ nops = 3 /\ Len(heap) = 2
  /\ last.args.model = Text("gfs")
  /\ heap[last.args.self].model = Text("gfs")
  /\ heap[last.args.self].daily.model = Text("gfs")
  /\ heap[last.args.self].timeseries.model = Text("gfs")

\* the newest timestamp of a table is a text that is no
\* '%Y-%m-%d %H:%M:%S' timestamp
Unparsable(tab) == tab.exists /\ Len(tab.rows) > 0 /\ NewestKey(tab).s # FmtSec

\* C17: an init that finds a table whose newest timestamp cannot be parsed
\* raises nothing, lists the station of that table and leaves every station
\* with all its tables
C17_UnparsedIsStale ==
  ( /\ last.op = "init"
    /\ \E d \in Databases, s \in Stations, k \in TableTypes : Unparsable(Before(d, s, k)) )
  => /\ last.exc = ""
     /\ \A d \in Databases, s \in Stations, k \in TableTypes :
           /\ Unparsable(Before(d, s, k)) => InList(last.ret, s)
           /\ After(d, s, k).exists

\* the data bindings whose connection is None
NoneBindings == {b \in 1..Len(config.BindingOrder) : connection(BindingDatabase(b)) = Null}

\* the latest call asked for a connection and received None: an init or
\* remove under a configuration with such a binding, a _write of a well
\* shaped batch or a _read, both on the forecast database
ReceivedNone ==
  \/ last.op \in {"init", "remove"} /\ NoneBindings # {}
  \/ /\ last.op = "_write" /\ connection("forecast") = Null
     /\ RowLen(last.args.values, 1, 0) >= 0 /\ Len(last.args.values) > 0
  \/ last.op = "_read" /\ connection("forecast") = Null

\* C18 as stated: a call that received None has raised and the databases are
\* as they were before the call
C18_NoneChangesNothing == ReceivedNone => (last.exc # "" /\ db = last.pre)

\* C18, amended: a call that received None has raised; a _write or _read has
\* changed nothing, and an init or remove has changed no table of a database
\* other than those of the data bindings that come before the first binding
\* whose connection is None
C18_NoneIsFatal ==
  ReceivedNone =>
     /\ last.exc # ""
     /\ last.op \in {"_write", "_read"} => db = last.pre
     /\ last.op \in {"init", "remove"} =>
          LET first == CHOOSE b \in NoneBindings : \A o \in NoneBindings : b <= o
          IN \A d \in DOMAIN db :
                (\A b \in 1..(first - 1) : BindingDatabase(b) # d) => db[d] = last.pre[d]

\* init has raised IOError on its second data binding, after it created the
\* tables of the first
C18_Witness ==
  /\ last.op = "init" /\ last.exc = "IOError"
  /\ NoneBindings = {2}
  /\ \A t \in TableNames : ~last.pre["forecast"][t].exists /\ db["forecast"][t].exists

\* a table init is to report: it is missing or stale
NeedsBackfill(tab, k) == ~tab.exists \/ StaleTable(tab, k)

\* C19: the list init returns has no station twice, and has a station if
\* and only if a table of the station, in the database of a data binding,
\* was missing or stale before the call
C19_BackfillList ==
  (last.op = "init" /\ last.exc = "") =>
     /\ \A i, j \in 1..Len(last.ret) : last.ret[i] = last.ret[j] => i = j
     /\ \A s \in Stations :
           InList(last.ret, s) <=>
             \E b \in 1..Len(config.BindingOrder), k \in TableTypes :
                NeedsBackfill(Before(BindingDatabase(b), s, k), k)

\* init has returned a list with KSEA alone: tables of KSEA were missing in
\* the databases of both data bindings, and no table of KPDX was missing or
\* stale
C19_Witness ==
  /\ last.op = "init" /\ last.exc = ""
  /\ Len(config.BindingOrder) = 2
  /\ \A b \in 1..2 : ~Before(BindingDatabase(b), "KSEA", "VERIF").exists
  /\ \A b \in 1..2, k \in TableTypes : ~NeedsBackfill(Before(BindingDatabase(b), "KPDX", k), k)
  /\ last.ret = <<"KSEA">>

\* C20: when a _write, _read, init or remove returns, it has closed every
\* connection it opened
C20_ConnectionsClosed ==
  (last.op \in {"_write", "_read", "init", "remove"} /\ last.exc = "") =>
     last.closed = last.opened

\* the Dailys of a writeDaily call and the table the call names
DailyItems == last.args.daily.items

DailyTable(dbs) ==
  dbs["forecast"][TableName(DailyItems[1].stid, Upper(last.args.table_type))]

\* the row the statement of C21 gives a Daily in a table: by the table's
\* columns, the date string, the source label, or the attribute of that name
ClaimedRow(tab, d) ==
  [j \in 1..Len(tab.columns) |->
     IF tab.columns[j] = "DateTime" THEN date_to_string(d.date)
     ELSE IF tab.columns[j] = "Model" THEN d.model
     ELSE IF tab.columns[j] \in DOMAIN d THEN d[tab.columns[j]]
     ELSE Null]

\* REPLACE INTO of r2 removes the stored row r1
Replaces(tab, r1, r2) ==
  \A j \in 1..Len(tab.key) : r2[tab.key[j]].k # "null" /\ r1[tab.key[j]] = r2[tab.key[j]]

\* C21: writeDaily of Dailys of one station to a table that init created
\* binds one value per real column of the table, so the write succeeds, and
\* every Daily that no later Daily of the call replaces is stored as the row
\* with the date string under DateTime, the source label under Model and,
\* under every other column, the attribute of that name or null
C21_DailyRowShape ==
  ( /\ last.op = "writeDaily"
    /\ Len(DailyItems) > 0
    /\ ~MixedStations(DailyItems)
    /\ DailyTable(last.pre).exists )
  => ( /\ last.exc = ""
       /\ \A i \in 1..Len(DailyItems) :
             LET tab == DailyTable(db)
                 row == ClaimedRow(tab, DailyItems[i])
             IN /\ Len(row) = Len(CreateTable(schema[Upper(last.args.table_type)]).columns)
                /\ (\A j \in (i + 1)..Len(DailyItems) :
                       ~Replaces(tab, row, ClaimedRow(tab, DailyItems[j])))
                   => RowCount(tab, row) >= 1 )

\* a Daily with a source label has been written to a DAILY_FORECAST table,
\* whose schema entry has seven columns, the pseudo-column among them: the
\* stored row has six values
C21_Witness ==
  /\ last.op = "writeDaily" /\ last.exc = ""
  /\ last.args.table_type = "daily_forecast"
  /\ DailyItems[1].model.k = "text"
  /\ DailyTable(last.pre).exists
  /\ Len(schema["DAILY_FORECAST"]) = 7
  /\ \E i \in 1..Len(DailyTable(db).rows) :
        /\ Len(DailyTable(db).rows[i]) = 6
        /\ DailyTable(db).rows[i] = ClaimedRow(DailyTable(db), DailyItems[1])

\* the pairs of the service in progress, by position
AllJobs == [i \in 1..Len(Jobs(run.service)) |-> i]

Elements(seq) == {seq[i] : i \in 1..Len(seq)}

\* C22: with the traceback option off a bulk retrieval service never ends by
\* raising, never writes a pair whose driver failed, and has invoked the
\* driver of every pair, in order, when it ends; with the option on, the
\* first failure of a driver or of a write ends the service by raising, and
\* the failed pair is the last one invoked
C22_FailuresSkipped ==
  run.pc # "none" =>
     /\ run.failed \cap Elements(run.written) = {}
     /\ ~config.traceback =>
          /\ run.pc # "raised"
          /\ run.pc = "done" => run.invoked = AllJobs
     /\ config.traceback =>
          /\ (run.failed \cup run.wfailed # {}) <=> run.pc = "raised"
          /\ run.pc = "raised" =>
               /\ Cardinality(run.failed \cup run.wfailed) = 1
               /\ run.invoked[Len(run.invoked)] \in run.failed \cup run.wfailed

\* getForecasts.main has ended with the traceback option off: the driver of
\* the first pair failed, the write of a later pair failed, every pair was
\* invoked and the forecast of the first station from the second source is
\* stored
C22_Witness ==
  /\ run.pc = "done" /\ run.service = "getForecasts" /\ ~config.traceback
  /\ 1 \in run.failed
  /\ run.wfailed # {}
  /\ run.invoked = AllJobs
  /\ 3 \in Elements(run.written) \ run.wfailed
  /\ \E i \in 1..Len(db["forecast"][<<"KSEA", "DAILY_FORECAST">>].rows) :
        db["forecast"][<<"KSEA", "DAILY_FORECAST">>].rows[i][2] = Text("NAM")

\* what the call of caller p leaves in its table when it runs alone
WrittenAlone(p) ==
  _write(run.start, run.w[p].values, "forecast", run.w[p].table, TRUE).dbs["forecast"][run.w[p].table]

\* C23: when two callers have written at the same time to tables of different
\* stations, each table holds what the call of its writer leaves when it
\* runs alone
C23_WritersIndependent ==
  (run.pc = "writers" /\ \A p \in Writers : run.w[p].pc \in {"done", "raised"}) =>
     \A p \in Writers : db["forecast"][run.w[p].table] = WrittenAlone(p)

\* 31 December, 00:00, of the last complete leap year, for the years 2025 to
\* 2032 of the clock
ClimoEpoch == IF now < YearStart(2029) THEN December31(2024) ELSE December31(2028)

\* C24: when init returns, a station whose other tables are current is in
\* the returned list if and only if the newest timestamp of its CLIMO table
\* is earlier than 31 December of the last complete leap year, however many
\* days old that timestamp is
C24_ClimoEpoch ==
  (last.op = "init" /\ last.exc = "" /\ now >= YearStart(2025)) =>
     \A s \in Stations :
        ( /\ \A k \in TableTypes :
                Before("forecast", s, k).exists /\ Len(Before("forecast", s, k).rows) > 0
          /\ \A k \in TableTypes \ {"CLIMO"} :
                now - Newest(Before("forecast", s, k)) <= Days(30) )
        => ( InList(last.ret, s) <=> Newest(Before("forecast", s, "CLIMO")) < ClimoEpoch )

\* init has returned on 1 January 2029, the leap year 2028 complete: the
\* other tables of KSEA are current, its CLIMO table still ends on 31
\* December 2024, and KSEA is listed
C24_Witness ==
  /\ last.op = "init" /\ last.exc = ""
  /\ now = YearStart(2029)
  /\ \A k \in TableTypes \ {"CLIMO"} : now - Newest(Before("forecast", "KSEA", k)) <= Days(30)
  /\ Newest(Before("forecast", "KSEA", "CLIMO")) = December31(2024)
  /\ InList(last.ret, "KSEA")

\* C25: readForecast, with the daily row of the station, model and date
\* stored and either hourly rows in the window or no_hourly_ok set, returns a
\* Forecast whose TimeSeries and whose single Daily carry the station id and
\* the model of the Forecast, which are the ones asked for
C25_ForecastConsistent ==
  LET a == last.args
      daily == last.pre["forecast"][TableName(a.stid, "DAILY_FORECAST")]
      hourly == last.pre["forecast"][TableName(a.stid, "HOURLY_FORECAST")]
      day == LabelledRows(daily, a.model, <<a.date.n, a.date.n, FALSE>>)
      hours == LabelledRows(hourly, a.model,
                            <<a.date.n + a.hour_start - a.hour_padding,
                              a.date.n + a.hour_start + 24 + a.hour_padding, FALSE>>)
  IN ( /\ last.op = "readForecast" /\ a.hour_start \in 0..23 /\ a.hour_padding \in 0..24
       /\ daily.exists /\ hourly.exists
       /\ Cardinality(day) = 1
       /\ hours # {} \/ a.no_hourly_ok )
     => /\ last.exc = ""
        /\ last.ret.k = "forecast"
        /\ last.ret.v.stid = a.stid /\ last.ret.v.model = a.model
        /\ last.ret.v.timeseries.stid = a.stid
        /\ last.ret.v.timeseries.model = a.model
        /\ DOMAIN last.ret.v.daily = DOMAIN Daily(a.stid, a.date)
        /\ last.ret.v.daily.stid = a.stid
        /\ last.ret.v.daily.model = a.model

\* the positions of the log at which the run called what
LogPositions(what) == {n \in 1..Len(run.log) : run.log[n] = what}

ServiceCalls == {n \in 1..Len(run.log) : run.log[n][1] = "service"}

HistoricalCalls == {n \in 1..Len(run.log) : run.log[n][1] = "historical"}

\* C26: in an engine run db.init is the first call and is called once; a
\* service runs only after the historical backfill of every station that
\* init returned, and only when neither -b nor -r was given; no station is
\* backfilled twice; a run without options that reaches its end has
\* backfilled every returned station exactly once; a run with -b or -r has
\* ended once it is past that operation
C26_EngineOrder ==
  run.pc # "init" =>
     /\ LogPositions(<<"init", "">>) = {1}
     /\ \A n \in ServiceCalls :
           /\ ~run.b_stid.given /\ ~run.r_stid.given
           /\ \A s \in Elements(run.add_sites) :
                 \E m \in LogPositions(<<"historical", s>>) : m < n
           /\ \A m \in HistoricalCalls : m < n
     /\ \A s \in Stations : Cardinality(LogPositions(<<"historical", s>>)) <= 1
     /\ ~(run.b_stid.given \/ run.r_stid.given) =>
           /\ \A m \in HistoricalCalls : InList(run.add_sites, run.log[m][2])
           /\ run.pc \in {"services", "end"} =>
                 \A s \in Elements(run.add_sites) :
                    Cardinality(LogPositions(<<"historical", s>>)) = 1
     /\ (run.b_stid.given \/ run.r_stid.given) =>
           /\ run.pc \in {"backfill", "remove", "exit", "raised"}
           /\ run.b_stid.given => \A n \in 1..Len(run.log) : run.log[n][1] # "remove"

\* a run without options has ended: init returned both stations, each was
\* backfilled once, and the three services ran after that
C26_Witness ==
  /\ run.pc = "end"
  /\ run.add_sites = <<"KSEA", "KPDX">>
  /\ run.log = << <<"init", "">>, <<"historical", "KSEA">>, <<"historical", "KPDX">>,
                  <<"service", "getForecasts">>, <<"service", "getVerification">>,
                  <<"service", "makePlots">> >>

\* the Forecasts of a writeForecast call, and the outcome of writeDaily on
\* their Dailys
ForecastItems == last.args.forecast.items

DailyHalf ==
  writeDaily(last.pre,
             [is_list |-> last.args.forecast.is_list,
              items |-> [i \in 1..Len(ForecastItems) |-> ForecastItems[i].daily]],
             "forecast", "DAILY_FORECAST")

\* C27: when the daily half of writeForecast raises, writeForecast raises the
\* same error, opens no further connection and leaves the databases as they
\* were; when the daily half succeeds and no TimeSeries has a row, the call
\* returns normally, the DAILY_FORECAST table holds the rows of the daily
\* half (the row of the last Forecast among them) and nothing else changed
C27_DailyThenHourly ==
  last.op = "writeForecast" =>
     /\ DailyHalf.exc # "" =>
           /\ last.exc = DailyHalf.exc
           /\ last.opened = DailyHalf.opened
           /\ db = last.pre
     /\ ( /\ DailyHalf.exc = ""
          /\ \A i \in 1..Len(ForecastItems) : Len(ForecastItems[i].timeseries.data) = 0 )
        => LET table == TableName(ForecastItems[1].stid, "DAILY_FORECAST")
               tab == db["forecast"][table]
           IN /\ last.exc = ""
              /\ db = DailyHalf.dbs
              /\ RowCount(tab, ClaimedRow(tab, ForecastItems[Len(ForecastItems)].daily)) = 1
              /\ \A t \in TableNames \ {table} : db["forecast"][t] = last.pre["forecast"][t]
              /\ last.opened = 1 /\ last.closed = 1

\* writeForecast of a Forecast whose TimeSeries has no row has returned, and
\* the row of its Daily is stored in a table that was empty
C27_Witness ==
  /\ last.op = "writeForecast" /\ last.exc = ""
  /\ ~last.args.forecast.is_list
  /\ Len(ForecastItems[1].timeseries.data) = 0
  /\ last.pre["forecast"][<<"KSEA", "DAILY_FORECAST">>].exists
  /\ last.pre["forecast"][<<"KSEA", "DAILY_FORECAST">>].rows = <<>>
  /\ Len(db["forecast"][<<"KSEA", "DAILY_FORECAST">>].rows) = 1
  /\ db["forecast"][<<"KSEA", "HOURLY_FORECAST">>].rows = <<>>

\* a table holds a row whose timestamp is inside its retention window
HoldsRecentRow(tab, k) ==
  \E i \in 1..Len(tab.rows) :
     \/ k # "CLIMO" /\ now - tab.rows[i][1].n <= Days(30)
     \/ k = "CLIMO" /\ tab.rows[i][1].n >= December31(last_leap_year(now))

\* a call of init with reset_old = False has returned
SoftInit == last.op = "init" /\ last.exc = "" /\ ~last.args.reset_old

\* a station has a table that exists and holds no row inside its window
Awaiting(dbs, s) ==
  \E d \in Databases, k \in TableTypes :
     dbs[d][<<s, k>>].exists /\ ~HoldsRecentRow(dbs[d][<<s, k>>], k)

\* when init with reset_old = False returns, a station with a table that
\* existed and held no row inside its retention window is in the returned
\* list and its tables are what they were; a station all of whose tables
\* existed and held such a row is not in the list
SoftInitReturns ==
  SoftInit =>
     \A s \in Stations :
        /\ Awaiting(last.pre, s) =>
              /\ InList(last.ret, s)
              /\ \A d \in Databases, k \in TableTypes :
                    Before(d, s, k).exists => After(d, s, k) = Before(d, s, k)
        /\ (\A d \in Databases, k \in TableTypes :
               Before(d, s, k).exists /\ HoldsRecentRow(Before(d, s, k), k))
           => ~InList(last.ret, s)

\* from a state in which a station has such a table, a call of init with
\* reset_old = False that returns has the station in its list
SoftInitAgain ==
  \A s \in Stations :
     (Awaiting(db, s) /\ last'.op = "init" /\ last'.exc = "" /\ ~last'.args.reset_old)
        => InList(last'.ret, s)

\* C28: under reset_old = False, init returns a station as long as one of
\* its existing tables holds no row inside its retention window, whatever
\* calls came before, and leaves those tables as they are; it does not
\* return a station all of whose tables hold such a row
C28_SoftBackfill == []SoftInitReturns /\ [][SoftInitAgain]_vars

\* init with reset_old = False has returned without KSEA: two tables of KSEA
\* held a row past the window only, and a row inside the window was written
\* to each of them in the two calls before
C28_Witness ==
  /\ SoftInit /\ nops = 3
  /\ ~InList(last.ret, "KSEA")
  /\ \E k \in TableTypes :
        /\ Len(db["forecast"][<<"KSEA", k>>].rows) = 2
        /\ ~HoldsRecentRow([db["forecast"][<<"KSEA", k>>] EXCEPT !.rows = SubSeq(@, 1, 1)], k)
        /\ HoldsRecentRow(db["forecast"][<<"KSEA", k>>], k)
  /\ \E k1, k2 \in TableTypes :
        /\ k1 # k2
        /\ Len(db["forecast"][<<"KSEA", k1>>].rows) = 2
        /\ Len(db["forecast"][<<"KSEA", k2>>].rows) = 2

\* C29: of two interleaved runs of init that can open the database neither
\* raises: a run that has
\* ended has returned, with the list a run alone would have returned, and
\* every table of the schema exists
C29_InitsIndependent ==
  (run.pc = "inits" /\ \A b \in 1..Len(config.BindingOrder) : connection(BindingDatabase(b)) # Null) =>
     \A p \in Inits :
        /\ run.r[p].pc # "raised"
        /\ run.r[p].pc = "done" =>
              /\ \A t \in TableNames : db["forecast"][t].exists
              /\ \A s \in Stations :
                    InList(run.r[p].add_sites, s) =>
                       \E k \in TableTypes : NeedsBackfill(run.start["forecast"][<<s, k>>], k)

\* when remove(config, stid) returns, the station has no table in the
\* database of any data binding, and every table of every other station is
\* what it was before the call
RemoveDropsStation ==
  (last.op = "remove" /\ last.exc = "") =>
     /\ \A b \in 1..Len(config.BindingOrder), k \in TableTypes :
           ~After(BindingDatabase(b), last.args.stid, k).exists
     /\ \A d \in DOMAIN db, s \in Stations \ {last.args.stid}, k \in TableTypes :
           After(d, s, k) = Before(d, s, k)

\* a call of init that follows remove(config, stid) and returns leaves every
\* table of the station, in the database of every data binding, existing
\* with the columns of the schema and without a row, and returns the station
InitAfterRemove ==
  (last.op = "remove" /\ last.exc = "" /\ last'.op = "init" /\ last'.exc = "") =>
     /\ \A b \in 1..Len(config.BindingOrder), k \in TableTypes :
           db'[BindingDatabase(b)][<<last.args.stid, k>>] = CreateTable(schema[k])
     /\ InList(last'.ret, last.args.stid)

\* C30: remove drops every table of the station in every data binding and
\* changes no table of another station; the init that follows recreates the
\* station's tables empty and returns the station
C30_RemoveThenInit == []RemoveDropsStation /\ [][InitAfterRemove]_vars

\* init has returned KSEA after remove(config, 'KSEA'): with two data
\* bindings, the tables of KSEA held a row before the removal and are empty,
\* and the tables of KPDX hold their rows
C30_Witness ==
  /\ last.op = "init" /\ last.exc = "" /\ nops = 2
  /\ Len(config.BindingOrder) = 2
  /\ InList(last.ret, "KSEA")
  /\ \A b \in 1..2, k \in TableTypes :
        /\ ~Before(BindingDatabase(b), "KSEA", k).exists
        /\ After(BindingDatabase(b), "KSEA", k).exists
        /\ After(BindingDatabase(b), "KSEA", k).rows = <<>>
        /\ Len(After(BindingDatabase(b), "KPDX", k).rows) = 1

====
